---- MODULE Spec2Model ----
(***************************************************************************)
(* A model of the decoding and marginal-likelihood logic of the three DROP *)
(* reading-comprehension models QaNetMarginal, QaNetPlusQuestionSpan and   *)
(* QaNetForDrop (the part of forward() that follows the neural encoder),   *)
(* and of the fusion, refinement and pooling steps of forward(), each      *)
(* checked as a step of its own on inputs given directly.                  *)
(*                                                                         *)
(* Conventions.                                                            *)
(*  - Tensors are sequences; positions are the source's 0-based indices,   *)
(*    read with At(t, i).                                                  *)
(*  - A logit is an integer multiple of ln 2, so that exp(logit) is the    *)
(*    integer 2^logit and every softmax probability is an exact rational   *)
(*    [n |-> numerator, d |-> denominator] in lowest terms.                *)
(*  - A log-probability is kept as the pair [k, p] standing for            *)
(*    k * (-1e10) + ln(p): k counts the -1e10 padding sentinels added in,  *)
(*    p is the probability. exp(-1e10) is 0 in floating point, which is    *)
(*    how logsumexp treats the terms with a larger k.                      *)
(***************************************************************************)
EXTENDS Integers, Sequences, FiniteSets, TLC

VARIABLES
    variant,        \* the model class whose forward() is called
    pc,             \* "call": forward() not yet run; "done": it returned;
                    \* "raised": it ended in an error; "reported", "reset":
                    \* get_metrics() returned, called with reset False, True;
                    \* or the step of forward() that a specification checks
                    \* on its own
    heads,          \* per example: the masks, the similarity matrix and the
                    \* logits of the scoring heads
    answers,        \* per example: the annotation arguments that are not None,
                    \* <<>> when none is given
    metadata,       \* per example: the metadata dictionary, <<>> when not given
    local,          \* per example: forward()'s local tensors after the call
    output_dict,    \* the dictionary forward() returns
    metrics         \* what self._drop_metrics / self._squad_metrics has received
                    \* since it was created or last reset

vars == <<variant, pc, heads, answers, metadata, local, output_dict, metrics>>

(***************************************************************************)
(* Bounds of the model.                                                    *)
(***************************************************************************)
\* The longest passage or question of SpecSpan.
MaxLen == 3

\* The most annotation slots of one answer type of an example.
MaxSlots == 2

\* The most examples of a batch.
MaxBatch == 2

\* The pairs the metric holds beyond which no further forward() is called.
MaxPairs == 2

LogitValues == 0 .. 2

\* None, and a value that is present, for optional arguments and results.
None == <<>>

Some(x) == <<x>>

(***************************************************************************)
(* Tensors and exact arithmetic.                                           *)
(***************************************************************************)
At(t, i) == t[i + 1]

Positions(t) == 0 .. (Len(t) - 1)

Tensors(values, len) == [1 .. len -> values]

RECURSIVE Sum(_)
Sum(t) == IF t = <<>> THEN 0 ELSE Head(t) + Sum(Tail(t))

RECURSIVE Pow2(_)
Pow2(n) == IF n = 0 THEN 1 ELSE 2 * Pow2(n - 1)

RECURSIVE GCD(_, _)
GCD(a, b) == IF b = 0 THEN a ELSE GCD(b, a % b)

Rat(n, d) ==
    LET g == GCD(n, d)
    IN  IF n = 0 THEN [n |-> 0, d |-> 1] ELSE [n |-> n \div g, d |-> d \div g]

RZero == Rat(0, 1)

ROne == Rat(1, 1)

RMul(a, b) == Rat(a.n * b.n, a.d * b.d)

RAdd(a, b) == Rat(a.n * b.d + b.n * a.d, a.d * b.d)

RLeq(a, b) == a.n * b.d <= b.n * a.d

RLess(a, b) == a.n * b.d < b.n * a.d

RECURSIVE RSum(_)
RSum(t) == IF t = <<>> THEN RZero ELSE RAdd(Head(t), RSum(Tail(t)))

RECURSIVE RProd(_)
RProd(t) == IF t = <<>> THEN ROne ELSE RMul(Head(t), RProd(Tail(t)))

\* A log-domain value k * (-1e10) + ln(p).
LogOf(p) == [k |-> 0, p |-> p]

LogAdd(x, y) == [k |-> x.k + y.k, p |-> RMul(x.p, y.p)]

\* x < y and x <= y for log-domain values: a -1e10 sentinel outweighs any ln(p).
LogLess(x, y) == x.k > y.k \/ (x.k = y.k /\ RLess(x.p, y.p))

(***************************************************************************)
(* torch and allennlp.nn.util operations, as forward() calls them.         *)
(***************************************************************************)
\* torch.nn.functional.softmax over the last dimension.
softmax(logits) ==
    LET w == [i \in 1 .. Len(logits) |-> Pow2(logits[i])]
    IN  [i \in 1 .. Len(logits) |-> Rat(w[i], Sum(w))]

\* reading_comprehension.utils.memory_effient_masked_softmax: a softmax over the
\* unmasked positions, 0 at the masked ones, all 0 when nothing is unmasked.
masked_softmax(logits, mask) ==
    LET w == [i \in 1 .. Len(logits) |-> mask[i] * Pow2(logits[i])]
    IN  [i \in 1 .. Len(logits) |->
            IF Sum(w) = 0 THEN RZero ELSE Rat(w[i], Sum(w))]

\* util.masked_log_softmax: the logarithm of the same distribution. At a masked
\* position the library adds log(1e-45) to the logit, a log-probability of about
\* -103 that is kept here as ln(0); well-formed annotations and best spans
\* never index a masked position.
masked_log_softmax(logits, mask) ==
    LET p == masked_softmax(logits, mask)
    IN  [i \in 1 .. Len(logits) |-> LogOf(p[i])]

\* torch.nn.functional.log_softmax over the last dimension.
log_softmax(logits) ==
    LET p == softmax(logits)
    IN  [i \in 1 .. Len(logits) |-> LogOf(p[i])]

\* util.replace_masked_values(tensor, mask, replace_with).
replace_masked_values(tensor, mask, replace_with) ==
    [i \in 1 .. Len(tensor) |-> IF mask[i] = 1 THEN tensor[i] ELSE replace_with]

\* torch.argmax over a vector of integers: the first index of the maximum.
RECURSIVE argmax_from(_, _, _)
argmax_from(t, i, best) ==
    IF i = Len(t) THEN best
    ELSE argmax_from(t, i + 1, IF At(t, i) > At(t, best) THEN i ELSE best)

argmax(t) == argmax_from(t, 0, 0)

\* torch.argmax over a vector of probabilities.
RECURSIVE rargmax_from(_, _, _)
rargmax_from(t, i, best) ==
    IF i = Len(t) THEN best
    ELSE rargmax_from(t, i + 1, IF RLess(At(t, best), At(t, i)) THEN i ELSE best)

rargmax(t) == rargmax_from(t, 0, 0)

\* torch.argmax over a vector of log-probabilities.
RECURSIVE logargmax_from(_, _, _)
logargmax_from(t, i, best) ==
    IF i = Len(t) THEN best
    ELSE logargmax_from(t, i + 1, IF LogLess(At(t, best), At(t, i)) THEN i ELSE best)

logargmax(t) == logargmax_from(t, 0, 0)

(***************************************************************************)
(* Best-span search: BidirectionalAttentionFlow.get_best_span, the single  *)
(* left-to-right scan with a running maximum of the start logits.          *)
(* max_span_log_prob starts at -1e20, below every sum: None stands for it. *)
(***************************************************************************)
RECURSIVE get_best_span_scan(_, _, _, _, _, _)
get_best_span_scan(start, end, j, span_start_argmax, best_word_span, max_span_log_prob) ==
    IF j = Len(start) THEN best_word_span
    ELSE
        LET a    == IF At(start, span_start_argmax) < At(start, j)
                    THEN j ELSE span_start_argmax
            val1 == At(start, a)
            val2 == At(end, j)
        IN  IF max_span_log_prob = None \/ val1 + val2 > max_span_log_prob[1]
            THEN get_best_span_scan(start, end, j + 1, a, <<a, j>>, Some(val1 + val2))
            ELSE get_best_span_scan(start, end, j + 1, a, best_word_span, max_span_log_prob)

\* The scan with >= in both comparisons: the last index of a maximum wins.
RECURSIVE get_best_span_scan_last_wins(_, _, _, _, _, _)
get_best_span_scan_last_wins(start, end, j, span_start_argmax, best_word_span, max_span_log_prob) ==
    IF j = Len(start) THEN best_word_span
    ELSE
        LET a    == IF At(start, span_start_argmax) <= At(start, j)
                    THEN j ELSE span_start_argmax
            val1 == At(start, a)
            val2 == At(end, j)
        IN  IF max_span_log_prob = None \/ val1 + val2 >= max_span_log_prob[1]
            THEN get_best_span_scan_last_wins(start, end, j + 1, a, <<a, j>>,
                                              Some(val1 + val2))
            ELSE get_best_span_scan_last_wins(start, end, j + 1, a, best_word_span,
                                              max_span_log_prob)

get_best_span_last_wins(span_start_logits, span_end_logits) ==
    get_best_span_scan_last_wins(span_start_logits, span_end_logits, 0, 0, <<0, 0>>, None)

get_best_span(span_start_logits, span_end_logits) ==
    get_best_span_scan(span_start_logits, span_end_logits, 0, 0, <<0, 0>>, None)

\* The sentinel forward() writes over the logits of masked positions.
MaskFill == -10000000

\* The search with the start and end logits exchanged.
best_span_swapped(start_logits, end_logits, mask) ==
    get_best_span(replace_masked_values(end_logits, mask, MaskFill),
                  replace_masked_values(start_logits, mask, MaskFill))

\* The search without the replace_masked_values step.
best_span_unmasked(start_logits, end_logits, mask) ==
    get_best_span(start_logits, end_logits)

\* The search with the two columns of its result exchanged.
best_span_reversed(start_logits, end_logits, mask) ==
    <<get_best_span(replace_masked_values(start_logits, mask, MaskFill),
                    replace_masked_values(end_logits, mask, MaskFill))[2],
      get_best_span(replace_masked_values(start_logits, mask, MaskFill),
                    replace_masked_values(end_logits, mask, MaskFill))[1]>>

\* forward(): replace_masked_values on both logit vectors, then get_best_span.
best_span_of(start_logits, end_logits, mask) ==
    get_best_span(replace_masked_values(start_logits, mask, MaskFill),
                  replace_masked_values(end_logits, mask, MaskFill))

(***************************************************************************)
(* The decoding half of forward(), one example of the batch at a time.     *)
(* h holds the masks and the outputs of the scoring heads of the example;  *)
(* the local tensors are computed in the order of the source, each from    *)
(* the ones before it, and collected in the record kept in local[b].       *)
(***************************************************************************)
\* torch.gather along the last dimension, one index.
gather(t, index) == At(t, index)

\* --- QaNetMarginal -------------------------------------------------------
marginal_log_probs(h) ==
    [passage_span_start_log_probs |->
        masked_log_softmax(h.span_start_logits, h.passage_mask),
     passage_span_end_log_probs |->
        masked_log_softmax(h.span_end_logits, h.passage_mask)]

marginal_best_span(h, r) ==
    r @@ [best_passage_span |->
            best_span_of(h.span_start_logits, h.span_end_logits, h.passage_mask)]

local_marginal(h) == marginal_best_span(h, marginal_log_probs(h))

\* --- QaNetPlusQuestionSpan -----------------------------------------------
plus_q_span_log_probs(h) ==
    [answer_type_log_probs |-> log_softmax(h.answer_type_logits),
     passage_span_start_log_probs |->
        masked_log_softmax(h.span_start_logits, h.passage_mask),
     passage_span_end_log_probs |->
        masked_log_softmax(h.span_end_logits, h.passage_mask),
     question_span_start_log_probs |->
        masked_log_softmax(h.question_span_start_logits, h.question_mask),
     question_span_end_logits_log_probs |->
        masked_log_softmax(h.question_span_end_logits, h.question_mask)]

\* best_passage_span_log_prob / best_question_span_log_prob before the gate's
\* log-probability is added: both gathers read index best_span[:, 0].
best_span_log_prob(start_log_probs, end_log_probs, span) ==
    LogAdd(gather(start_log_probs, span[1]), gather(end_log_probs, span[1]))

plus_q_span_best_spans(h, r) ==
    r @@ [best_passage_span |->
            best_span_of(h.span_start_logits, h.span_end_logits, h.passage_mask),
          best_question_span |->
            best_span_of(h.question_span_start_logits, h.question_span_end_logits,
                         h.question_mask)]

plus_q_span_best_log_probs(r) ==
    r @@ [best_passage_span_log_prob |->
            best_span_log_prob(r.passage_span_start_log_probs,
                               r.passage_span_end_log_probs, r.best_passage_span),
          best_question_span_log_prob |->
            best_span_log_prob(r.question_span_start_log_probs,
                               r.question_span_end_logits_log_probs,
                               r.best_question_span)]

\* best_answer_type = torch.argmax(answer_type_log_probs, 1).
best_answer_type_of_gate(answer_type_log_probs) == logargmax(answer_type_log_probs)

\* "+= answer_type_log_probs[:, t]" on the two best-span log-probabilities
\* (kept as weighted), and best_answer_type.
plus_q_span_answer_type(r) ==
    r @@ [weighted |->
            <<LogAdd(r.best_passage_span_log_prob, At(r.answer_type_log_probs, 0)),
              LogAdd(r.best_question_span_log_prob, At(r.answer_type_log_probs, 1))>>,
          best_answer_type |-> best_answer_type_of_gate(r.answer_type_log_probs)]

local_plus_q_span(h) ==
    plus_q_span_answer_type(
        plus_q_span_best_log_probs(plus_q_span_best_spans(h, plus_q_span_log_probs(h))))

\* --- QaNetForDrop --------------------------------------------------------
\* softmax over the 3 sign classes of each number slot, zeroed at masked slots.
number_sign_probs(number_sign_logits, numbers_mask) ==
    [s \in 1 .. Len(numbers_mask) |->
        [c \in 1 .. 3 |->
            RMul(softmax(number_sign_logits[s])[c], Rat(numbers_mask[s], 1))]]

\* passage_question_attention: masked_softmax over the last dimension of the
\* similarity matrix, one row per passage position.
passage_question_attention(similarity, question_mask) ==
    [i \in 1 .. Len(similarity) |-> masked_softmax(similarity[i], question_mask)]

drop_probs(h) ==
    [passage_question_attention |->
        passage_question_attention(h.passage_question_similarity, h.question_mask),
     answer_type_probs |-> softmax(h.answer_type_logits),
     span_start_probs |-> masked_softmax(h.span_start_logits, h.passage_mask),
     span_end_probs |-> masked_softmax(h.span_end_logits, h.passage_mask),
     number_sign_probs |-> number_sign_probs(h.number_sign_logits, h.numbers_mask),
     count_number_probs |-> softmax(h.count_number_logits)]

\* argmax sign class per slot, times the mask (class 0 at masked slots).
best_signs_for_numbers(sign_probs, numbers_mask) ==
    [s \in 1 .. Len(numbers_mask) |-> rargmax(sign_probs[s]) * numbers_mask[s]]

drop_best(h, r) ==
    r @@ [best_span |->
            best_span_of(h.span_start_logits, h.span_end_logits, h.passage_mask),
          best_signs_for_numbers |->
            best_signs_for_numbers(r.number_sign_probs, h.numbers_mask),
          best_count_number |-> rargmax(r.count_number_probs)]

\* best_span_prob before the gate weight: torch.gather(span_start_probs, 1,
\* best_span) reads the start distribution at both indices of the span.
best_span_prob(start_probs, end_probs, span) ==
    RMul(gather(start_probs, span[1]), gather(start_probs, span[2]))

\* The product of the gathered probabilities without the term 1 - numbers_mask.
best_combination_prob_no_fill(sign_probs, best_signs, numbers_mask) ==
    RProd([s \in 1 .. Len(numbers_mask) |-> gather(sign_probs[s], best_signs[s])])

\* best_combination_prob before the gate weight. The guard 1e-10 added before
\* the logarithm is below the resolution of a float32 at these values
\* (every term is 1 or at least 1/(1 + 2 * 2^max logit)) and leaves them as is.
best_combination_prob(sign_probs, best_signs, numbers_mask) ==
    RProd([s \in 1 .. Len(numbers_mask) |->
              RAdd(gather(sign_probs[s], best_signs[s]), Rat(1 - numbers_mask[s], 1))])

\* best_count_prob before the gate weight.
best_count_prob(count_probs, best_count) == gather(count_probs, best_count)

drop_best_probs(h, r) ==
    r @@ [best_span_prob |->
            best_span_prob(r.span_start_probs, r.span_end_probs, r.best_span),
          best_combination_prob |->
            best_combination_prob(r.number_sign_probs, r.best_signs_for_numbers,
                                  h.numbers_mask),
          best_count_prob |-> best_count_prob(r.count_number_probs, r.best_count_number)]

\* The three best probabilities after "*= answer_type_probs[:, t]", stacked as
\* the argument of torch.argmax.
stacked_best_probs(r) ==
    <<RMul(r.best_span_prob, At(r.answer_type_probs, 0)),
      RMul(r.best_combination_prob, At(r.answer_type_probs, 1)),
      RMul(r.best_count_prob, At(r.answer_type_probs, 2))>>

\* torch.argmax with the last maximal index winning.
RECURSIVE rargmax_last_from(_, _, _)
rargmax_last_from(t, i, best) ==
    IF i = Len(t) THEN best
    ELSE rargmax_last_from(t, i + 1, IF RLeq(At(t, best), At(t, i)) THEN i ELSE best)

best_answer_type_last_wins(stacked) == rargmax_last_from(stacked, 0, 0)

\* The position of the maximum counted from 1.
best_answer_type_one_based(stacked) == rargmax(stacked) + 1

\* best_answer_type = torch.argmax(torch.stack([...], 1), 1).
best_answer_type(stacked) == rargmax(stacked)

drop_stacked(r) == r @@ [weighted |-> stacked_best_probs(r)]

drop_answer_type(r) == r @@ [best_answer_type |-> best_answer_type(r.weighted)]

local_drop(h) ==
    drop_answer_type(drop_stacked(drop_best_probs(h, drop_best(h, drop_probs(h)))))

(***************************************************************************)
(* The marginal-likelihood loss, one example at a time. r is the record of *)
(* local tensors above, a holds the example's answer annotations; a span   *)
(* slot is <<start, end>>, a padded slot <<-1, -1>>.                       *)
(***************************************************************************)
\* torch.nn.functional.relu on an index.
relu(x) == IF x < 0 THEN 0 ELSE x

\* The value -1e10 written over the log-likelihoods of padded slots.
PaddedLogLikelihood == [k |-> 1, p |-> ROne]

Min(S) == CHOOSE x \in S : \A y \in S : x <= y

\* The terms of t at sentinel level k, 0 for the others.
AtLevel(t, k) == [i \in 1 .. Len(t) |-> IF t[i].k = k THEN t[i].p ELSE RZero]

\* util.logsumexp over the last dimension: max + log(sum(exp(t - max))); a term
\* 1e10 below the maximum contributes exp(-1e10) = 0.
logsumexp_at(t, k) == [k |-> k, p |-> RSum(AtLevel(t, k))]

logsumexp(t) == logsumexp_at(t, Min({t[i].k : i \in 1 .. Len(t)}))

\* The span log-likelihoods without the replace_masked_values step.
log_likelihood_for_spans_unmasked(start_log_probs, end_log_probs, answer_as_spans) ==
    [i \in 1 .. Len(answer_as_spans) |->
        LogAdd(gather(start_log_probs, relu(answer_as_spans[i][1])),
               gather(end_log_probs, relu(answer_as_spans[i][2])))]

\* The span log-likelihoods with a mask that also tests the end index.
log_likelihood_for_spans_end_masked(start_log_probs, end_log_probs, answer_as_spans) ==
    [i \in 1 .. Len(answer_as_spans) |->
        IF answer_as_spans[i][1] # -1 /\ answer_as_spans[i][2] # -1
        THEN LogAdd(gather(start_log_probs, relu(answer_as_spans[i][1])),
                    gather(end_log_probs, relu(answer_as_spans[i][2])))
        ELSE PaddedLogLikelihood]

\* log_likelihood_for_passage_spans / log_likelihood_for_question_spans: the
\* mask is (span_starts != -1), the indices are clamped at 0, the gathered
\* start and end log-probabilities are added, padded slots become -1e10.
log_likelihood_for_spans(start_log_probs, end_log_probs, answer_as_spans) ==
    [i \in 1 .. Len(answer_as_spans) |->
        IF answer_as_spans[i][1] # -1
        THEN LogAdd(gather(start_log_probs, relu(answer_as_spans[i][1])),
                    gather(end_log_probs, relu(answer_as_spans[i][2])))
        ELSE PaddedLogLikelihood]

\* QaNetMarginal: log_marginal_likelihood_for_passage_spans.
marginal_log_marginal_likelihood(r, a) ==
    logsumexp(log_likelihood_for_spans(r.passage_span_start_log_probs,
                                       r.passage_span_end_log_probs,
                                       a.answer_as_passage_spans))

\* QaNetPlusQuestionSpan: log_marginal_likelihood_for_passage_spans.
log_marginal_likelihood_for_passage_spans(r, a) ==
    LogAdd(At(r.answer_type_log_probs, 0),
           logsumexp(log_likelihood_for_spans(r.passage_span_start_log_probs,
                                              r.passage_span_end_log_probs,
                                              a.answer_as_passage_spans)))

\* The question span marginal with the padded slots scored like the others.
log_marginal_likelihood_for_question_spans_unmasked(r, a) ==
    LogAdd(At(r.answer_type_log_probs, 1),
           logsumexp(log_likelihood_for_spans_unmasked(r.question_span_start_log_probs,
                                                       r.question_span_end_logits_log_probs,
                                                       a.answer_as_question_spans)))

\* QaNetPlusQuestionSpan: log_marginal_likelihood_for_question_spans.
log_marginal_likelihood_for_question_spans(r, a) ==
    LogAdd(At(r.answer_type_log_probs, 1),
           logsumexp(log_likelihood_for_spans(r.question_span_start_log_probs,
                                              r.question_span_end_logits_log_probs,
                                              a.answer_as_question_spans)))

\* QaNetPlusQuestionSpan: marginal_log_likelihood.
marginal_log_likelihood(r, a) ==
    logsumexp(<<log_marginal_likelihood_for_passage_spans(r, a),
                log_marginal_likelihood_for_question_spans(r, a)>>)

\* QaNetForDrop without the span mask.
likelyhood_for_spans_unmasked(r, a) ==
    [i \in 1 .. Len(a.answer_as_spans) |->
        RMul(gather(r.span_start_probs, relu(a.answer_as_spans[i][1])),
             gather(r.span_end_probs, relu(a.answer_as_spans[i][2])))]

\* QaNetForDrop: likelyhood_for_spans, 0 at the padded slots.
likelyhood_for_spans(r, a) ==
    [i \in 1 .. Len(a.answer_as_spans) |->
        RMul(RMul(gather(r.span_start_probs, relu(a.answer_as_spans[i][1])),
                  gather(r.span_end_probs, relu(a.answer_as_spans[i][2]))),
             Rat(IF a.answer_as_spans[i][1] # -1 THEN 1 ELSE 0, 1))]

\* likelyhood_for_combination_numbers without the term 1 - numbers_mask.
likelyhood_for_combination_numbers_no_fill(sign_probs, numbers_mask, row) ==
    [s \in 1 .. Len(numbers_mask) |->
        RMul(gather(sign_probs[s], row[s]), Rat(numbers_mask[s], 1))]

\* likelyhood_for_combination_numbers of one row: the probability of the sign
\* class the row gives each slot, 1 at the masked slots.
likelyhood_for_combination_numbers(sign_probs, numbers_mask, row) ==
    [s \in 1 .. Len(numbers_mask) |->
        RAdd(RMul(gather(sign_probs[s], row[s]), Rat(numbers_mask[s], 1)),
             Rat(1 - numbers_mask[s], 1))]

\* QaNetForDrop: likelyhood_for_combinations. A row assigns a sign class to
\* every number slot; the row of all 0 is padding (combination_mask = 0).
\* The guard 1e-10 added before the logarithm leaves these terms as they are.
likelyhood_for_combinations(r, h, a) ==
    [i \in 1 .. Len(a.answer_as_plus_minus_combinations) |->
        RMul(RProd(likelyhood_for_combination_numbers(
                      r.number_sign_probs, h.numbers_mask,
                      a.answer_as_plus_minus_combinations[i])),
             Rat(IF Sum(a.answer_as_plus_minus_combinations[i]) > 0 THEN 1 ELSE 0, 1))]

\* QaNetForDrop without the count mask.
likelyhood_for_counts_unmasked(r, a) ==
    [i \in 1 .. Len(a.answer_as_counts) |->
        gather(r.count_number_probs, relu(a.answer_as_counts[i]))]

\* QaNetForDrop: likelyhood_for_counts, 0 at the padded slots (label -1).
likelyhood_for_counts(r, a) ==
    [i \in 1 .. Len(a.answer_as_counts) |->
        RMul(gather(r.count_number_probs, relu(a.answer_as_counts[i])),
             Rat(IF a.answer_as_counts[i] # -1 THEN 1 ELSE 0, 1))]

\* marginal_likelyhood without the answer_type_probs factors.
marginal_likelyhood_ungated(r, h, a) ==
    RAdd(RAdd(RSum(likelyhood_for_spans(r, a)), RSum(likelyhood_for_combinations(r, h, a))),
         RSum(likelyhood_for_counts(r, a)))

\* QaNetForDrop: marginal_likelyhood.
marginal_likelyhood(r, h, a) ==
    RAdd(RAdd(RMul(At(r.answer_type_probs, 0), RSum(likelyhood_for_spans(r, a))),
              RMul(At(r.answer_type_probs, 1), RSum(likelyhood_for_combinations(r, h, a)))),
         RMul(At(r.answer_type_probs, 2), RSum(likelyhood_for_counts(r, a))))

(***************************************************************************)
(* output_dict["loss"]. The loss -mean(terms) is kept as its per-example   *)
(* log-domain terms; guard tells that 1e-10 is added to each likelihood    *)
(* before its logarithm (QaNetForDrop), which makes ln(0 + 1e-10) finite.  *)
(***************************************************************************)
loss_of_marginal(rs, as) ==
    [terms |-> [b \in 1 .. Len(rs) |-> marginal_log_marginal_likelihood(rs[b], as[b])],
     guard |-> FALSE]

loss_of_plus_q_span(rs, as) ==
    [terms |-> [b \in 1 .. Len(rs) |-> marginal_log_likelihood(rs[b], as[b])],
     guard |-> FALSE]

loss_of_drop(rs, hs, as) ==
    [terms |-> [b \in 1 .. Len(rs) |-> LogOf(marginal_likelyhood(rs[b], hs[b], as[b]))],
     guard |-> TRUE]

(***************************************************************************)
(* The decode loop of forward(): the answer string of one example from its *)
(* local tensors r and its metadata m. Strings are sequences of characters.*)
(***************************************************************************)
\* Python's text[start_offset:end_offset].
Slice(text, start_offset, end_offset) ==
    IF start_offset >= end_offset \/ start_offset >= Len(text) THEN <<>>
    ELSE SubSeq(text, start_offset + 1, IF end_offset > Len(text) THEN Len(text) ELSE end_offset)

Digit(d) == <<"0", "1", "2", "3", "4", "5", "6", "7", "8", "9">>[d + 1]

RECURSIVE Digits(_)
Digits(n) == IF n < 10 THEN <<Digit(n)>> ELSE Digits(n \div 10) \o <<Digit(n % 10)>>

\* Python's str() of an integer.
str(n) == IF n < 0 THEN <<"-">> \o Digits(-n) ELSE Digits(n)

\* The text from the first character of token span[0] to the last character of
\* token span[1].
span_text(text, offsets, span) ==
    Slice(text, At(offsets, span[1])[1], At(offsets, span[2])[2])

\* The sign table with the signs of the classes 1 and 2 exchanged.
sign_remap_exchanged(c) == IF c = 0 THEN 0 ELSE IF c = 1 THEN -1 ELSE 1

\* sign_remap = {0: 0, 1: 1, 2: -1}.
sign_remap(c) == IF c = 0 THEN 0 ELSE IF c = 1 THEN 1 ELSE -1

\* sum(sign * number for sign, number in zip(predicted_signs, original_numbers)).
RECURSIVE signed_sum(_, _)
signed_sum(best_signs, original_numbers) ==
    IF best_signs = <<>> \/ original_numbers = <<>> THEN 0
    ELSE sign_remap(Head(best_signs)) * Head(original_numbers)
         + signed_sum(Tail(best_signs), Tail(original_numbers))

\* The result of one pass of the loop body: the answer string, or the ValueError.
Answer(text) == [raised |-> FALSE, best_answer_str |-> text, answer_type |-> 0]

ValueError(answer_type) ==
    [raised |-> TRUE, best_answer_str |-> <<>>, answer_type |-> answer_type]

\* QaNetMarginal: always the best passage span.
decode_marginal(r, m) ==
    Answer(span_text(m.original_passage, m.passage_token_offsets, r.best_passage_span))

\* QaNetPlusQuestionSpan: by answer type, passage span or question span.
decode_plus_q_span(r, m) ==
    IF r.best_answer_type = 0
    THEN Answer(span_text(m.original_passage, m.passage_token_offsets,
                          r.best_passage_span))
    ELSE IF r.best_answer_type = 1
    THEN Answer(span_text(m.original_question, m.question_token_offsets,
                          r.best_question_span))
    ELSE ValueError(r.best_answer_type)

\* The branches of QaNetForDrop with the last one taken for every other value.
decode_drop_defaulting(r, m) ==
    IF r.best_answer_type = 0
    THEN Answer(span_text(m.original_passage, m.token_offsets, r.best_span))
    ELSE IF r.best_answer_type = 1
    THEN Answer(str(signed_sum(r.best_signs_for_numbers, m.original_numbers)))
    ELSE Answer(str(r.best_count_number))

\* QaNetForDrop: by answer type, passage span, signed sum or count.
decode_drop(r, m) ==
    IF r.best_answer_type = 0
    THEN Answer(span_text(m.original_passage, m.token_offsets, r.best_span))
    ELSE IF r.best_answer_type = 1
    THEN Answer(str(signed_sum(r.best_signs_for_numbers, m.original_numbers)))
    ELSE IF r.best_answer_type = 2
    THEN Answer(str(r.best_count_number))
    ELSE ValueError(r.best_answer_type)

\* dict.get(key, default).
get(dict, key, default) == IF key \in DOMAIN dict THEN dict[key] ELSE default

\* The loop body with the metric called for every example.
loop_body_always_scored(acc, d, m) ==
    [acc EXCEPT
        !.question_id = Append(@, m.question_id),
        !.answer = Append(@, d.best_answer_str),
        !.question_tokens = Append(@, m.question_tokens),
        !.passage_tokens = Append(@, m.passage_tokens),
        !.calls = Append(@, <<d.best_answer_str, get(m, "answer_texts", <<>>)>>)]

\* One pass of the loop body after the answer string d is known: the appends to
\* the lists and the call to the metric when metadata[i].get('answer_texts', [])
\* is not empty.
loop_body(acc, d, m) ==
    [acc EXCEPT
        !.question_id = Append(@, m.question_id),
        !.answer = Append(@, d.best_answer_str),
        !.question_tokens = Append(@, m.question_tokens),
        !.passage_tokens = Append(@, m.passage_tokens),
        !.calls = IF get(m, "answer_texts", <<>>) # <<>>
                  THEN Append(@, <<d.best_answer_str, get(m, "answer_texts", <<>>)>>)
                  ELSE @]

\* The loop "for i in range(batch_size)" from example i on, ds[i] being the
\* answer string (or the ValueError) of example i; it stops at the first error.
RECURSIVE decode_loop(_, _, _, _)
decode_loop(ds, ms, i, acc) ==
    IF i > Len(ds) THEN acc
    ELSE IF ds[i].raised
         THEN [acc EXCEPT !.raised = TRUE, !.answer_type = ds[i].answer_type]
         ELSE decode_loop(ds, ms, i + 1, loop_body(acc, ds[i], ms[i]))

decoded(ds, ms) ==
    decode_loop(ds, ms, 1,
                [raised |-> FALSE, answer_type |-> 0, question_id |-> <<>>,
                 answer |-> <<>>, question_tokens |-> <<>>, passage_tokens |-> <<>>,
                 calls |-> <<>>])

(***************************************************************************)
(* forward(): one action per model class. Each computes the whole call:    *)
(* the local tensors, the loss when annotations are given, the decode loop *)
(* and the calls to the metric when metadata is given.                     *)
(***************************************************************************)
Batch == 1 .. Len(heads)

\* The annotation argument forward() tests against None before the loss.
TestedAnnotation(v) ==
    IF v = "QaNetForDrop" THEN "answer_as_spans" ELSE "answer_as_passage_spans"

\* The annotation arguments the loss computation reads besides the tested one,
\* in the order it reads them.
OtherAnnotations(v) ==
    IF v = "QaNetForDrop" THEN <<"answer_as_plus_minus_combinations", "answer_as_counts">>
    ELSE IF v = "QaNetPlusQuestionSpan" THEN <<"answer_as_question_spans">>
    ELSE <<>>

\* An annotation argument is a tensor over the batch, or None: answers holds,
\* per example, the arguments that are not None.
Supplied(field) == answers # None /\ field \in DOMAIN answers[1]

ComputesLoss == Supplied(TestedAnnotation(variant))

MissingAnnotations ==
    LET missing(field) == ~Supplied(field)
    IN  SelectSeq(OtherAnnotations(variant), missing)

\* The loss computation reads an annotation argument that is None: Python
\* raises (TypeError on None[:, :, 0], AttributeError on None.sum(-1)) before
\* forward() reaches the decode loop.
NoneError(field) ==
    /\ metrics' = metrics
    /\ pc' = "raised"
    /\ output_dict' = [NoneError |-> field]

\* A dictionary with one key, or none when the guard is false.
Entry(present, key, value) == IF present THEN (key :> value) ELSE <<>>

\* The end of forward(): d is the outcome of the decode loop (of no pass when
\* there is no metadata), out the dictionary returned unless the loop raised.
Return(d, out) ==
    /\ metrics' = metrics \o d.calls
    /\ pc' = IF d.raised THEN "raised" ELSE "done"
    /\ output_dict' = IF d.raised THEN [ValueError |-> d.answer_type] ELSE out

\* QaNetMarginal and QaNetPlusQuestionSpan: "loss", "question_id", "answer".
span_output(d, loss) ==
    Entry(ComputesLoss, "loss", loss)
    @@ Entry(metadata # None, "question_id", d.question_id)
    @@ Entry(metadata # None, "answer", d.answer)

\* QaNetForDrop: the attention and the probabilities, "loss", and with metadata
\* the token lists and 'best_answer_str', the list that is created empty and
\* never appended to.
drop_output(d, loss, rs) ==
    [passage_question_attention |->
        [b \in 1 .. Len(rs) |-> rs[b].passage_question_attention],
     answer_type_probs |-> [b \in 1 .. Len(rs) |-> rs[b].answer_type_probs],
     span_start_probs |-> [b \in 1 .. Len(rs) |-> rs[b].span_start_probs],
     span_end_probs |-> [b \in 1 .. Len(rs) |-> rs[b].span_end_probs],
     number_sign_probs |-> [b \in 1 .. Len(rs) |-> rs[b].number_sign_probs],
     count_number_probs |-> [b \in 1 .. Len(rs) |-> rs[b].count_number_probs]]
    @@ Entry(ComputesLoss, "loss", loss)
    @@ Entry(metadata # None, "best_answer_str", <<>>)
    @@ Entry(metadata # None, "question_tokens", d.question_tokens)
    @@ Entry(metadata # None, "passage_tokens", d.passage_tokens)

ForwardMarginal ==
    /\ pc = "call"
    /\ variant = "QaNetMarginal"
    /\ local' = [b \in Batch |-> local_marginal(heads[b])]
    /\ IF ComputesLoss /\ MissingAnnotations # <<>>
         THEN NoneError(Head(MissingAnnotations))
         ELSE Return(decoded(IF metadata = None THEN <<>>
                           ELSE [b \in Batch |-> decode_marginal(local'[b], metadata[b])],
                           metadata),
                   span_output(decoded(IF metadata = None THEN <<>>
                               ELSE [b \in Batch |-> decode_marginal(local'[b], metadata[b])],
                               metadata),
                               IF ~ComputesLoss THEN None
                               ELSE loss_of_marginal(local', answers)))
    /\ UNCHANGED <<variant, heads, answers, metadata>>

ForwardPlusQuestionSpan ==
    /\ pc = "call"
    /\ variant = "QaNetPlusQuestionSpan"
    /\ local' = [b \in Batch |-> local_plus_q_span(heads[b])]
    /\ IF ComputesLoss /\ MissingAnnotations # <<>>
         THEN NoneError(Head(MissingAnnotations))
         ELSE Return(decoded(IF metadata = None THEN <<>>
                           ELSE [b \in Batch |-> decode_plus_q_span(local'[b], metadata[b])],
                           metadata),
                   span_output(decoded(IF metadata = None THEN <<>>
                               ELSE [b \in Batch |-> decode_plus_q_span(local'[b], metadata[b])],
                               metadata),
                               IF ~ComputesLoss THEN None
                               ELSE loss_of_plus_q_span(local', answers)))
    /\ UNCHANGED <<variant, heads, answers, metadata>>

ForwardForDrop ==
    /\ pc = "call"
    /\ variant = "QaNetForDrop"
    /\ local' = [b \in Batch |-> local_drop(heads[b])]
    /\ IF ComputesLoss /\ MissingAnnotations # <<>>
         THEN NoneError(Head(MissingAnnotations))
         ELSE Return(decoded(IF metadata = None THEN <<>>
                           ELSE [b \in Batch |-> decode_drop(local'[b], metadata[b])],
                           metadata),
                   drop_output(decoded(IF metadata = None THEN <<>>
                               ELSE [b \in Batch |-> decode_drop(local'[b], metadata[b])],
                               metadata),
                               IF ~ComputesLoss THEN None
                               ELSE loss_of_drop(local', heads, answers),
                               local'))
    /\ UNCHANGED <<variant, heads, answers, metadata>>

\* QaNetForDrop's answer-type selection on its own: the torch.argmax over the
\* stacked weighted probabilities, for weighted probabilities given directly.
SelectAnswerType ==
    /\ pc = "stacked"
    /\ variant = "QaNetForDrop"
    /\ local' = [b \in 1 .. Len(local) |-> drop_answer_type(local[b])]
    /\ pc' = "done"
    /\ UNCHANGED <<variant, heads, answers, metadata, output_dict, metrics>>

\* The decode loop of QaNetPlusQuestionSpan and QaNetForDrop on its own, for
\* answer types given directly: the "if metadata is not None" block that ends
\* forward(), with its branch on answer_type and its raise.
DecodeLoop ==
    /\ pc = "decode"
    /\ variant \in {"QaNetPlusQuestionSpan", "QaNetForDrop"}
    /\ Return(decoded([b \in Batch |->
                          IF variant = "QaNetForDrop"
                          THEN decode_drop(local[b], metadata[b])
                          ELSE decode_plus_q_span(local[b], metadata[b])],
                      metadata),
              IF variant = "QaNetForDrop"
              THEN drop_output(decoded([b \in Batch |-> decode_drop(local[b], metadata[b])],
                                       metadata),
                               None, local)
              ELSE span_output(decoded([b \in Batch |->
                                           decode_plus_q_span(local[b], metadata[b])],
                                       metadata),
                               None))
    /\ UNCHANGED <<variant, heads, answers, metadata, local>>

(***************************************************************************)
(* Representation fusion, the same lines in the three classes: the two     *)
(* attentions over the similarity matrix, their product and the weighted   *)
(* sums. Encoded vectors have one component.                               *)
(***************************************************************************)
\* Tensor.transpose(1, 2) of a matrix with a given number of columns.
transpose(matrix, columns) ==
    [j \in 1 .. columns |-> [i \in 1 .. Len(matrix) |-> matrix[i][j]]]

\* The attention of the question over the passage with no mask applied.
question_passage_attention_unmasked(similarity, passage_mask, question_mask) ==
    [j \in 1 .. Len(question_mask) |->
        softmax(transpose(similarity, Len(question_mask))[j])]

question_passage_attention(similarity, passage_mask, question_mask) ==
    [j \in 1 .. Len(question_mask) |->
        masked_softmax(transpose(similarity, Len(question_mask))[j], passage_mask)]

\* torch.bmm of one example: the matrix product.
bmm(left, right, columns) ==
    [i \in 1 .. Len(left) |->
        [k \in 1 .. columns |->
            RSum([j \in 1 .. Len(right) |-> RMul(left[i][j], right[j][k])])]]

\* util.weighted_sum(matrix, attention): per row of the attention, the sum of
\* the vectors weighted by the row.
weighted_sum(vectors, attention) ==
    [i \in 1 .. Len(attention) |->
        RSum([j \in 1 .. Len(vectors) |-> RMul(attention[i][j], Rat(vectors[j], 1))])]

fusion_attention(h) ==
    [passage_question_attention |->
         passage_question_attention(h.passage_question_similarity, h.question_mask),
     question_passage_attention |->
         question_passage_attention(h.passage_question_similarity, h.passage_mask,
                                    h.question_mask)]

fusion_product(h, r) ==
    r @@ [attention_over_attention |->
              bmm(r.passage_question_attention, r.question_passage_attention,
                  Len(h.passage_mask))]

fusion_vectors(h, r) ==
    r @@ [passage_question_vectors |->
              weighted_sum(h.encoded_question, r.passage_question_attention),
          passage_passage_vectors |->
              weighted_sum(h.encoded_passage, r.attention_over_attention)]

local_fusion(h) == fusion_vectors(h, fusion_product(h, fusion_attention(h)))

\* The fusion step of forward() on its own, for a similarity matrix and
\* encoded vectors given directly.
Fusion ==
    /\ pc = "fusion"
    /\ local' = [b \in Batch |-> local_fusion(heads[b])]
    /\ pc' = "fused"
    /\ UNCHANGED <<variant, heads, answers, metadata, output_dict, metrics>>

(***************************************************************************)
(* Modeling refinement. The modeling layer is a capability supplied from   *)
(* outside: a snapshot records the merged vectors it was computed from and *)
(* the mask of every application of the layer it has been through. Dropout *)
(* is the identity outside training.                                       *)
(***************************************************************************)
NumModelingLayersForDrop == 4

NumModelingLayersPlusQuestionSpan == 3

NumModelingLayersMarginal == 3

NumModelingLayers(v) ==
    IF v = "QaNetForDrop" THEN NumModelingLayersForDrop
    ELSE IF v = "QaNetPlusQuestionSpan" THEN NumModelingLayersPlusQuestionSpan
    ELSE NumModelingLayersMarginal

\* The snapshot the pooled passage vector is computed from.
PooledSnapshotForDrop == 4

PooledSnapshotPlusQuestionSpan == 1

modeling_proj_layer(merged) == [merged |-> merged, masks |-> <<>>]

modeling_layer(snapshot, passage_mask) ==
    [snapshot EXCEPT !.masks = Append(@, passage_mask)]

dropout(x) == x

\* The loop "for _ in range(n)": each pass appends the refinement of the last
\* element of the list.
RECURSIVE modeling_loop(_, _, _)
modeling_loop(modeled_passage_list, passage_mask, n) ==
    IF n = 0 THEN modeled_passage_list
    ELSE modeling_loop(Append(modeled_passage_list,
                              dropout(modeling_layer(modeled_passage_list[Len(modeled_passage_list)],
                                                     passage_mask))),
                       passage_mask, n - 1)

modeled_passage_list(v, h) ==
    modeling_loop(<<modeling_proj_layer(h.merged_passage_attention_vectors)>>,
                  h.passage_mask, NumModelingLayers(v))

\* What the pooled passage vector is computed from: no such vector in
\* QaNetMarginal.
pooled_snapshot(v, snapshots) ==
    IF v = "QaNetForDrop" THEN <<At(snapshots, PooledSnapshotForDrop)>>
    ELSE IF v = "QaNetPlusQuestionSpan" THEN <<At(snapshots, PooledSnapshotPlusQuestionSpan)>>
    ELSE <<>>

\* The snapshots the heads are computed from.
refinement_reads(v, snapshots) ==
    [modeled_passage_list |-> snapshots,
     passage_for_span_start |-> <<At(snapshots, 1), At(snapshots, 2)>>,
     passage_for_span_end |-> <<At(snapshots, 1), At(snapshots, 3)>>,
     passage_vector |-> pooled_snapshot(v, snapshots)]

local_refinement(v, h) == refinement_reads(v, modeled_passage_list(v, h))

\* The refinement step of forward() on its own, for merged vectors given
\* directly.
Refinement ==
    /\ pc = "refinement"
    /\ local' = [b \in Batch |-> local_refinement(variant, heads[b])]
    /\ pc' = "refined"
    /\ UNCHANGED <<variant, heads, answers, metadata, output_dict, metrics>>

(***************************************************************************)
(* Attention pooling in QaNetPlusQuestionSpan and QaNetForDrop: the        *)
(* weights of the passage and of the question from the scores of the       *)
(* linear predictors, and the pooled vectors. Scores are multiples of ln 2.*)
(***************************************************************************)
\* masked_softmax of scores that may be negative: a softmax does not change
\* when the same number is subtracted from every score.
masked_softmax_of_scores(scores, mask) ==
    masked_softmax([i \in 1 .. Len(scores) |->
                       scores[i] - Min({scores[j] : j \in 1 .. Len(scores)})],
                   mask)

\* QaNetForDrop: passage_weights * passage_mask, question_weights * question_mask.
scores_times_mask(scores, mask) ==
    [i \in 1 .. Len(scores) |-> Rat(scores[i] * mask[i], 1)]

pooling_weights(v, scores, mask) ==
    IF v = "QaNetForDrop" THEN scores_times_mask(scores, mask)
    ELSE masked_softmax_of_scores(scores, mask)

pooling_of_weights(v, h) ==
    [passage_weights |-> pooling_weights(v, h.passage_weights, h.passage_mask),
     question_weights |-> pooling_weights(v, h.question_weights, h.question_mask)]

pooling_vectors(h, r) ==
    r @@ [passage_vector |-> weighted_sum(h.modeled_passage, <<r.passage_weights>>)[1],
          question_vector |-> weighted_sum(h.encoded_question, <<r.question_weights>>)[1]]

local_pooling(v, h) == pooling_vectors(h, pooling_of_weights(v, h))

\* The pooling step of forward() on its own, for scores given directly.
Pooling ==
    /\ pc = "pooling"
    /\ variant \in {"QaNetPlusQuestionSpan", "QaNetForDrop"}
    /\ local' = [b \in Batch |-> local_pooling(variant, heads[b])]
    /\ pc' = "pooled"
    /\ UNCHANGED <<variant, heads, answers, metadata, output_dict, metrics>>

(***************************************************************************)
(* The inputs of a call.                                                   *)
(***************************************************************************)
\* Prefix masks: n real tokens followed by len - n padding positions.
PrefixMask(len, n) == [i \in 1 .. len |-> IF i <= n THEN 1 ELSE 0]

Masks(len) == {PrefixMask(len, n) : n \in 1 .. len}

Zeros(len) == [i \in 1 .. len |-> 0]

\* The sizes the constructors give the classifier heads.
NumAnswerTypesForDrop == 3

NumAnswerTypesPlusQuestionSpan == 2

NumCounts == 10

NumAnswerTypes(v) ==
    IF v = "QaNetForDrop" THEN NumAnswerTypesForDrop
    ELSE IF v = "QaNetPlusQuestionSpan" THEN NumAnswerTypesPlusQuestionSpan
    ELSE 0

\* The similarity matrix of a passage and a question whose encodings do not
\* tell their positions apart: passage_length rows of question_length zeros.
PlainSimilarity(passage_length, question_length) ==
    [i \in 1 .. passage_length |-> Zeros(question_length)]

\* A one-token passage and question, no numbers, all logits 0.
PlainHead(v) ==
    [passage_question_similarity |-> PlainSimilarity(1, 1),
     passage_mask |-> <<1>>, span_start_logits |-> <<0>>, span_end_logits |-> <<0>>,
     question_mask |-> <<1>>, question_span_start_logits |-> <<0>>,
     question_span_end_logits |-> <<0>>,
     answer_type_logits |-> Zeros(NumAnswerTypes(v)),
     numbers_mask |-> <<>>, number_sign_logits |-> <<>>,
     count_number_logits |-> Zeros(NumCounts)]

\* The span heads over a sequence of every length up to n, every prefix mask
\* and every logit value.
SpanHeads(n, values) ==
    UNION {[mask : Masks(len), start : Tensors(values, len),
            end : Tensors(values, len)] : len \in 1 .. n}

SpanHeadOutputs == SpanHeads(MaxLen, LogitValues)

WithPassage(h, o) ==
    [h EXCEPT !.passage_mask = o.mask, !.span_start_logits = o.start,
              !.span_end_logits = o.end,
              !.passage_question_similarity =
                  PlainSimilarity(Len(o.mask), Len(h.question_mask))]

WithQuestion(h, o) ==
    [h EXCEPT !.question_mask = o.mask, !.question_span_start_logits = o.start,
              !.question_span_end_logits = o.end,
              !.passage_question_similarity =
                  PlainSimilarity(Len(h.passage_mask), Len(o.mask))]

WithGate(h, logits) == [h EXCEPT !.answer_type_logits = logits]

WithNumbers(h, n) ==
    [h EXCEPT !.numbers_mask = n.mask, !.number_sign_logits = n.logits]

WithCounts(h, logits) == [h EXCEPT !.count_number_logits = logits]

\* The metadata the dataset reader attaches: tokens are single letters joined
\* by one space, so token i covers the characters [2i, 2i + 1).
Letters == <<"a", "b", "c", "d", "e", "f">>

TextOf(len) == [i \in 1 .. (2 * len - 1) |-> IF i % 2 = 1 THEN Letters[(i + 1) \div 2] ELSE " "]

OffsetsOf(len) == [i \in 1 .. len |-> <<2 * (i - 1), 2 * (i - 1) + 1>>]

OriginalNumbers == <<3, 5, 8>>

MetadataOf(h, question_id, answer_texts) ==
    [question_id |-> question_id,
     original_passage |-> TextOf(Len(h.passage_mask)),
     passage_token_offsets |-> OffsetsOf(Len(h.passage_mask)),
     token_offsets |-> OffsetsOf(Len(h.passage_mask)),
     passage_tokens |-> SubSeq(Letters, 1, Sum(h.passage_mask)),
     original_question |-> TextOf(Len(h.question_mask)),
     question_token_offsets |-> OffsetsOf(Len(h.question_mask)),
     question_tokens |-> SubSeq(Letters, 1, Sum(h.question_mask)),
     original_numbers |-> SubSeq(OriginalNumbers, 1, Sum(h.numbers_mask)),
     number_tokens |-> [i \in 1 .. Sum(h.numbers_mask) |-> str(OriginalNumbers[i])],
     answer_texts |-> answer_texts]

InitBatch(v, hs, as, ms) ==
    /\ variant = v
    /\ pc = "call"
    /\ heads = hs
    /\ answers = as
    /\ metadata = ms
    /\ local = <<>>
    /\ output_dict = <<>>
    /\ metrics = <<>>

\* One example, no annotations, metadata without reference answers.
InitCall(v, h) == InitBatch(v, <<h>>, None, <<MetadataOf(h, "q1", <<>>)>>)

Variants == {"QaNetMarginal", "QaNetPlusQuestionSpan", "QaNetForDrop"}

Next == ForwardMarginal \/ ForwardPlusQuestionSpan \/ ForwardForDrop

(***************************************************************************)
(* SpecSpan: one example, the span heads over every input; no annotations. *)
(***************************************************************************)
\* The example of the best-span search with 5 positions, in units of 0.05:
\* start_logits = [0.1, 0.5, 0.2, 0.9, 0.1], end_logits = [0.05, 0.2, 0.6, 0.1, 0.9].
ExampleSpanHead ==
    [mask |-> <<1, 1, 1, 1, 1>>, start |-> <<2, 10, 4, 18, 2>>,
     end |-> <<1, 4, 12, 2, 18>>]

InitSpan ==
    \/ \E v \in Variants :
       \E o \in SpanHeadOutputs : InitCall(v, WithPassage(PlainHead(v), o))
    \/ \E o \in SpanHeadOutputs :
          InitCall("QaNetPlusQuestionSpan",
                   WithQuestion(PlainHead("QaNetPlusQuestionSpan"), o))
    \/ InitCall("QaNetMarginal", WithPassage(PlainHead("QaNetMarginal"), ExampleSpanHead))

SpecSpan == InitSpan /\ [][Next]_vars

(***************************************************************************)
(* SpecDecode: one example, the gate and every scoring head vary.          *)
(***************************************************************************)
\* Span heads over shorter sequences with logits 0 and 1.
ShortSpanHeads == SpanHeads(MaxLen - 1, 0 .. 1)

\* Question span heads: one token; two tokens, uniform; two tokens, skewed.
QuestionHeads ==
    {[mask |-> <<1>>, start |-> <<0>>, end |-> <<0>>],
     [mask |-> <<1, 1>>, start |-> <<0, 0>>, end |-> <<0, 0>>],
     [mask |-> <<1, 1>>, start |-> <<0, 2>>, end |-> <<2, 0>>],
     [mask |-> <<1, 0>>, start |-> <<0, 1>>, end |-> <<1, 0>>]}

\* Sign heads: no number; one number; two slots, the second one padding or real.
SignLogits == {<<0, 0, 0>>, <<0, 2, 0>>, <<0, 1, 1>>}

NumberHeads ==
    {[mask |-> <<>>, logits |-> <<>>]}
    \cup {[mask |-> <<1>>, logits |-> <<l>>] : l \in SignLogits}
    \cup {[mask |-> <<1, 0>>, logits |-> <<l, <<0, 2, 0>>>>] : l \in SignLogits}
    \cup {[mask |-> <<1, 1>>, logits |-> <<l, <<0, 0, 2>>>>] : l \in SignLogits}

\* Count heads: uniform, or a peak of the given height at count c.
Peak(c, height) == [i \in 1 .. NumCounts |-> IF i = c + 1 THEN height ELSE 0]

CountHeads == {Zeros(NumCounts), Peak(3, 2), Peak(0, 5)}

InitDecode ==
    \/ \E o \in ShortSpanHeads :
          InitCall("QaNetMarginal", WithPassage(PlainHead("QaNetMarginal"), o))
    \/ \E o \in ShortSpanHeads, q \in QuestionHeads, g \in Tensors(0 .. 2, 2) :
          InitCall("QaNetPlusQuestionSpan",
                   WithGate(WithQuestion(WithPassage(PlainHead("QaNetPlusQuestionSpan"), o),
                                         q), g))
    \/ \E o \in ShortSpanHeads, n \in NumberHeads, c \in CountHeads,
          g \in Tensors(0 .. 1, 3) :
          InitCall("QaNetForDrop",
                   WithGate(WithCounts(WithNumbers(WithPassage(PlainHead("QaNetForDrop"), o),
                                                   n), c), g))

SpecDecode == InitDecode /\ [][Next]_vars

(***************************************************************************)
(* SpecSelect: the answer-type selection over weighted scores in tenths.   *)
(***************************************************************************)
ScoreValues == {Rat(i, 10) : i \in 0 .. 10}

InitSelect ==
    \E w \in Tensors(ScoreValues, NumAnswerTypesForDrop) :
        /\ variant = "QaNetForDrop"
        /\ pc = "stacked"
        /\ heads = <<>>
        /\ answers = None
        /\ metadata = None
        /\ local = <<[weighted |-> w]>>
        /\ output_dict = <<>>
        /\ metrics = <<>>

SpecSelect == InitSelect /\ [][SelectAnswerType]_vars

(***************************************************************************)
(* SpecLoss: one example with answer annotations. The slots of an answer   *)
(* type hold distinct derivations at valid positions, then padding.        *)
(***************************************************************************)
RECURSIVE PickFrom(_, _, _)
PickFrom(candidates, S, i) ==
    IF i > Len(candidates) THEN <<>>
    ELSE (IF i \in S THEN <<candidates[i]>> ELSE <<>>) \o PickFrom(candidates, S, i + 1)

\* Every list of 1 .. MaxSlots slots: some of the candidates, in their order,
\* followed by slots holding the padding value.
Annotations(candidates, pad) ==
    {PickFrom(candidates, x[1], 1) \o [i \in 1 .. (x[2] - Cardinality(x[1])) |-> pad] :
        x \in {y \in (SUBSET (1 .. Len(candidates))) \X (1 .. MaxSlots) :
                  Cardinality(y[1]) <= y[2]}}

\* The spans of a sequence of at most two tokens that lie on real tokens.
SpanCandidates(mask) ==
    LET valid(span) == span[2] < Sum(mask)
    IN  SelectSeq(<<<<0, 0>>, <<0, 1>>, <<1, 1>>>>, valid)

SpanAnnotations(mask) == Annotations(SpanCandidates(mask), <<-1, -1>>)

\* Sign combinations that use the first number, and the all-zero padding row.
CombinationCandidates(numbers_mask) ==
    IF Sum(numbers_mask) = 0 THEN <<>>
    ELSE <<[s \in 1 .. Len(numbers_mask) |-> IF s = 1 THEN 1 ELSE 0],
           [s \in 1 .. Len(numbers_mask) |-> IF s = 1 THEN 2 ELSE 0]>>

CombinationAnnotations(numbers_mask) ==
    Annotations(CombinationCandidates(numbers_mask), Zeros(Len(numbers_mask)))

CountAnnotations == Annotations(<<0, 3>>, -1)

LossNumberHeads ==
    {[mask |-> <<>>, logits |-> <<>>],
     [mask |-> <<1, 0>>, logits |-> <<<<0, 1, 1>>, <<0, 2, 0>>>>]}

LossGates == {<<0, 0, 0>>, <<1, 0, 0>>, <<0, 1, 2>>}

\* Metadata with a reference answer, as in training and validation.
InitTrain(v, h, a) == InitBatch(v, <<h>>, <<a>>, <<MetadataOf(h, "q1", <<<<"a">>>>)>>)

InitLoss ==
    \/ \E o \in QuestionHeads : \E spans \in SpanAnnotations(o.mask) :
          InitTrain("QaNetMarginal", WithPassage(PlainHead("QaNetMarginal"), o),
                    [answer_as_passage_spans |-> spans])
    \/ \E o \in QuestionHeads, q \in QuestionHeads, g \in Tensors(0 .. 1, 2) :
       \E spans \in SpanAnnotations(o.mask), qspans \in SpanAnnotations(q.mask) :
          InitTrain("QaNetPlusQuestionSpan",
                    WithGate(WithQuestion(WithPassage(PlainHead("QaNetPlusQuestionSpan"), o),
                                          q), g),
                    [answer_as_passage_spans |-> spans,
                     answer_as_question_spans |-> qspans])
    \/ \E o \in QuestionHeads, n \in LossNumberHeads, g \in LossGates :
       \E spans \in SpanAnnotations(o.mask),
          combinations \in CombinationAnnotations(n.mask), counts \in CountAnnotations :
          InitTrain("QaNetForDrop",
                    WithGate(WithCounts(WithNumbers(WithPassage(PlainHead("QaNetForDrop"), o),
                                                    n), Peak(0, 2)), g),
                    [answer_as_spans |-> spans,
                     answer_as_plus_minus_combinations |-> combinations,
                     answer_as_counts |-> counts])

SpecLoss == InitLoss /\ [][Next]_vars

(***************************************************************************)
(* SpecSigns: QaNetForDrop on one annotated example with two number slots, *)
(* none, one or both of them real, and 1 .. MaxSlots combination rows that *)
(* assign any sign class to any slot, masked slots included.               *)
(***************************************************************************)
SignNumberHeads ==
    {[mask |-> PrefixMask(2, n), logits |-> <<l1, l2>>] :
        n \in 0 .. 2, l1 \in SignLogits, l2 \in SignLogits}

SignRows == Tensors(0 .. 2, 2)

SignAnnotations == UNION {[1 .. n -> SignRows] : n \in 1 .. MaxSlots}

InitSigns ==
    \E n \in SignNumberHeads, combinations \in SignAnnotations :
        InitTrain("QaNetForDrop",
                  WithNumbers(PlainHead("QaNetForDrop"), n),
                  [answer_as_spans |-> <<<<0, 0>>>>,
                   answer_as_plus_minus_combinations |-> combinations,
                   answer_as_counts |-> <<-1>>])

SpecSigns == InitSigns /\ [][ForwardForDrop]_vars

(***************************************************************************)
(* SpecBatch: batches of 1 .. MaxBatch examples drawn from four examples   *)
(* per model class, padded to two tokens, two numbers and two slots, with  *)
(* and without metadata, with and without annotations.                     *)
(***************************************************************************)
BatchHead(v, passage, question, gate, numbers_mask) ==
    WithNumbers(WithGate(WithQuestion(WithPassage(PlainHead(v), passage), question),
                         IF v = "QaNetMarginal" THEN <<>> ELSE SubSeq(gate, 1, NumAnswerTypes(v))),
                [mask |-> numbers_mask, logits |-> <<<<0, 2, 0>>, <<0, 0, 2>>>>])

BatchAnswers(v, spans, question_spans, combinations, counts) ==
    IF v = "QaNetMarginal" THEN [answer_as_passage_spans |-> spans]
    ELSE IF v = "QaNetPlusQuestionSpan"
    THEN [answer_as_passage_spans |-> spans, answer_as_question_spans |-> question_spans]
    ELSE [answer_as_spans |-> spans, answer_as_plus_minus_combinations |-> combinations,
          answer_as_counts |-> counts]

BatchExamples(v) ==
    <<[head |-> BatchHead(v, [mask |-> <<1, 1>>, start |-> <<0, 0>>, end |-> <<0, 0>>],
                          [mask |-> <<1, 1>>, start |-> <<0, 2>>, end |-> <<0, 2>>],
                          <<2, 0, 0>>, <<1, 0>>),
       answers |-> BatchAnswers(v, <<<<0, 0>>, <<-1, -1>>>>, <<<<-1, -1>>, <<-1, -1>>>>,
                                <<<<0, 0>>, <<0, 0>>>>, <<-1, -1>>),
       question_id |-> "q1", answer_texts |-> <<<<"a">>>>],
      [head |-> BatchHead(v, [mask |-> <<1, 1>>, start |-> <<0, 2>>, end |-> <<0, 2>>],
                          [mask |-> <<1, 0>>, start |-> <<0, 0>>, end |-> <<0, 0>>],
                          <<0, 2, 0>>, <<1, 1>>),
       answers |-> BatchAnswers(v, <<<<1, 1>>, <<0, 1>>>>, <<<<0, 0>>, <<-1, -1>>>>,
                                <<<<1, 2>>, <<0, 0>>>>, <<-1, -1>>),
       question_id |-> "q2", answer_texts |-> <<>>],
      [head |-> BatchHead(v, [mask |-> <<1, 1>>, start |-> <<2, 0>>, end |-> <<0, 2>>],
                          [mask |-> <<1, 1>>, start |-> <<0, 0>>, end |-> <<0, 2>>],
                          <<0, 0, 2>>, <<1, 0>>),
       answers |-> BatchAnswers(v, <<<<0, 1>>, <<-1, -1>>>>, <<<<0, 1>>, <<1, 1>>>>,
                                <<<<0, 0>>, <<0, 0>>>>, <<0, 3>>),
       question_id |-> "q3", answer_texts |-> <<<<"a", " ", "b">>, <<"0">>>>],
      [head |-> BatchHead(v, [mask |-> <<1, 0>>, start |-> <<0, 2>>, end |-> <<0, 0>>],
                          [mask |-> <<1, 1>>, start |-> <<1, 0>>, end |-> <<1, 0>>],
                          <<0, 0, 0>>, <<1, 1>>),
       answers |-> BatchAnswers(v, <<<<-1, -1>>, <<-1, -1>>>>, <<<<0, 0>>, <<-1, -1>>>>,
                                <<<<2, 1>>, <<1, 0>>>>, <<3, -1>>),
       question_id |-> "q4", answer_texts |-> <<<<"b">>>>]>>

Batches == UNION {[1 .. n -> 1 .. 4] : n \in 1 .. MaxBatch}

InitBatched ==
    \E v \in Variants, batch \in Batches, annotated \in BOOLEAN, described \in BOOLEAN :
        InitBatch(v,
                  [b \in 1 .. Len(batch) |-> BatchExamples(v)[batch[b]].head],
                  IF annotated
                  THEN [b \in 1 .. Len(batch) |-> BatchExamples(v)[batch[b]].answers]
                  ELSE None,
                  IF described
                  THEN [b \in 1 .. Len(batch) |->
                           MetadataOf(BatchExamples(v)[batch[b]].head,
                                      BatchExamples(v)[batch[b]].question_id,
                                      BatchExamples(v)[batch[b]].answer_texts)]
                  ELSE None)

SpecBatch == InitBatched /\ [][Next]_vars

(***************************************************************************)
(* SpecDecodeLoop: the decode loop of the two classes with an answer-type  *)
(* gate, on batches of the same examples, the answer type of every example *)
(* being any value from one below to one above the labels of QaNetForDrop. *)
(***************************************************************************)
AnswerTypeValues == -1 .. NumAnswerTypesForDrop

InitDecodeLoop ==
    \E v \in {"QaNetPlusQuestionSpan", "QaNetForDrop"}, batch \in Batches :
    \E types \in [1 .. Len(batch) -> AnswerTypeValues] :
        /\ variant = v
        /\ pc = "decode"
        /\ heads = [b \in 1 .. Len(batch) |-> BatchExamples(v)[batch[b]].head]
        /\ answers = None
        /\ metadata = [b \in 1 .. Len(batch) |->
                          MetadataOf(BatchExamples(v)[batch[b]].head,
                                     BatchExamples(v)[batch[b]].question_id,
                                     BatchExamples(v)[batch[b]].answer_texts)]
        /\ local = [b \in 1 .. Len(batch) |->
                       [(IF v = "QaNetForDrop"
                         THEN local_drop(BatchExamples(v)[batch[b]].head)
                         ELSE local_plus_q_span(BatchExamples(v)[batch[b]].head))
                        EXCEPT !.best_answer_type = types[b]]]
        /\ output_dict = <<>>
        /\ metrics = <<>>

SpecDecodeLoop == InitDecodeLoop /\ [][DecodeLoop]_vars

(***************************************************************************)
(* SpecOptional: one example, every annotation argument of the signature   *)
(* of forward() given or left at its default None, each on its own.        *)
(***************************************************************************)
\* The annotation arguments of forward(): QaNetMarginal and
\* QaNetPlusQuestionSpan accept all four, QaNetForDrop its three.
AnnotationArguments(v) ==
    IF v = "QaNetForDrop"
    THEN {"answer_as_spans", "answer_as_plus_minus_combinations", "answer_as_counts"}
    ELSE {"answer_as_passage_spans", "answer_as_question_spans",
          "answer_as_plus_minus_combinations", "answer_as_counts"}

\* One annotation tensor per argument, for an example with two number slots.
AnnotationTensor(field) ==
    IF field = "answer_as_counts" THEN <<0, -1>>
    ELSE IF field = "answer_as_plus_minus_combinations" THEN <<<<1, 0>>, <<0, 0>>>>
    ELSE <<<<0, 0>>, <<-1, -1>>>>

InitOptional ==
    \E v \in Variants, o \in QuestionHeads, q \in QuestionHeads, described \in BOOLEAN :
    \E given \in SUBSET AnnotationArguments(v) :
        InitBatch(v,
                  <<BatchHead(v, o, q, <<0, 1, 2>>, <<1, 0>>)>>,
                  IF given = {} THEN None
                  ELSE <<[field \in given |-> AnnotationTensor(field)]>>,
                  IF described
                  THEN <<MetadataOf(BatchHead(v, o, q, <<0, 1, 2>>, <<1, 0>>), "q1",
                                    <<<<"a">>>>)>>
                  ELSE None)

SpecOptional == InitOptional /\ [][Next]_vars

(***************************************************************************)
(* SpecFusion: the fusion step on one example with a passage and a         *)
(* question of one or two positions, every prefix mask (the empty one      *)
(* included), similarities in 0 .. 1 and encoded values in 1 .. 2.         *)
(***************************************************************************)
AnyMasks(len) == {PrefixMask(len, n) : n \in 0 .. len}

FusionInputs ==
    UNION {[passage_mask : AnyMasks(P), question_mask : AnyMasks(Q),
            passage_question_similarity : Tensors(Tensors(0 .. 1, Q), P),
            encoded_passage : Tensors(1 .. 2, P),
            encoded_question : Tensors(1 .. 2, Q)] :
           <<P, Q>> \in (1 .. 2) \X (1 .. 2)}

InitFusion ==
    \E v \in Variants, h \in FusionInputs :
        /\ variant = v
        /\ pc = "fusion"
        /\ heads = <<h>>
        /\ answers = None
        /\ metadata = None
        /\ local = <<>>
        /\ output_dict = <<>>
        /\ metrics = <<>>

SpecFusion == InitFusion /\ [][Fusion]_vars

(***************************************************************************)
(* SpecCombination: QaNetForDrop on one example with a reference answer    *)
(* and two number slots, one or both real, every slot with a sign head     *)
(* that prefers class 0, 1 or 2 or ties 1 with 2, under four gates.        *)
(***************************************************************************)
SignClassLogits == {<<2, 0, 0>>, <<0, 2, 0>>, <<0, 0, 2>>, <<0, 1, 1>>}

CombinationNumberHeads ==
    {[mask |-> PrefixMask(2, n), logits |-> <<l1, l2>>] :
        n \in 1 .. 2, l1 \in SignClassLogits, l2 \in SignClassLogits}

CombinationGates == {<<0, 2, 0>>, <<0, 0, 0>>, <<2, 0, 0>>, <<0, 0, 2>>}

InitCombination ==
    \E o \in QuestionHeads, n \in CombinationNumberHeads, g \in CombinationGates :
        InitBatch("QaNetForDrop",
                  <<WithGate(WithNumbers(WithPassage(PlainHead("QaNetForDrop"), o), n), g)>>,
                  None,
                  <<MetadataOf(WithGate(WithNumbers(WithPassage(PlainHead("QaNetForDrop"),
                                                               o), n), g),
                               "q1", <<<<"3">>>>)>>)

SpecCombination == InitCombination /\ [][ForwardForDrop]_vars

(***************************************************************************)
(* SpecRefinement: the refinement step of the three classes on one example *)
(* with merged vectors of one component over 1 .. MaxLen positions.        *)
(***************************************************************************)
InitRefinement ==
    \E v \in Variants, len \in 1 .. MaxLen :
    \E mask \in Masks(len), merged \in Tensors(LogitValues, len) :
        /\ variant = v
        /\ pc = "refinement"
        /\ heads = <<[passage_mask |-> mask, merged_passage_attention_vectors |-> merged]>>
        /\ answers = None
        /\ metadata = None
        /\ local = <<>>
        /\ output_dict = <<>>
        /\ metrics = <<>>

SpecRefinement == InitRefinement /\ [][Refinement]_vars

(***************************************************************************)
(* SpecPooling: the pooling step on one example with a passage and a       *)
(* question of one or two positions, at least one of them real, scores in  *)
(* -1 .. 1 and vectors of one component in 1 .. 2.                         *)
(***************************************************************************)
PoolingInputs ==
    UNION {[passage_mask : Masks(P), question_mask : Masks(Q),
            passage_weights : Tensors(-1 .. 1, P), question_weights : Tensors(-1 .. 1, Q),
            modeled_passage : Tensors(1 .. 2, P), encoded_question : Tensors(1 .. 2, Q)] :
           <<P, Q>> \in (1 .. 2) \X (1 .. 2)}

InitPooling ==
    \E v \in {"QaNetPlusQuestionSpan", "QaNetForDrop"}, h \in PoolingInputs :
        /\ variant = v
        /\ pc = "pooling"
        /\ heads = <<h>>
        /\ answers = None
        /\ metadata = None
        /\ local = <<>>
        /\ output_dict = <<>>
        /\ metrics = <<>>

SpecPooling == InitPooling /\ [][Pooling]_vars

(***************************************************************************)
(* SpecBestCombination: QaNetForDrop on one example with a reference       *)
(* answer and 0 .. MaxLen number slots, a prefix of them real (one real   *)
(* slot per original number at most), every slot, padding included, with   *)
(* a sign head that prefers class 0, 1 or 2 or ties 1 with 2, under four   *)
(* gates.                                                                  *)
(***************************************************************************)
PaddedNumberHeads ==
    UNION {[mask : {PrefixMask(len, n) : n \in {k \in 0 .. len : k <= Len(OriginalNumbers)}},
            logits : [1 .. len -> SignClassLogits]] : len \in 0 .. MaxLen}

InitBestCombination ==
    \E n \in PaddedNumberHeads, g \in CombinationGates :
        InitBatch("QaNetForDrop",
                  <<WithGate(WithNumbers(PlainHead("QaNetForDrop"), n), g)>>,
                  None,
                  <<MetadataOf(WithNumbers(PlainHead("QaNetForDrop"), n),
                               "q1", <<<<"3">>>>)>>)

SpecBestCombination == InitBestCombination /\ [][ForwardForDrop]_vars

(***************************************************************************)
(* SpecSlots: the three classes on one annotated example of two real       *)
(* tokens whose 1 .. MaxSlots span slots hold any start in -2 .. 1 and any *)
(* end in -1 .. 1, independently of each other.                            *)
(***************************************************************************)
\* Two real tokens, uniform or with distinct start and end distributions.
TwoTokenHeads ==
    {[mask |-> <<1, 1>>, start |-> <<0, 0>>, end |-> <<0, 0>>],
     [mask |-> <<1, 1>>, start |-> <<0, 1>>, end |-> <<2, 0>>]}

AnySlots == (-2 .. 1) \X (-1 .. 1)

AnySlotAnnotations == UNION {[1 .. n -> AnySlots] : n \in 1 .. MaxSlots}

InitSlots ==
    \/ \E o \in TwoTokenHeads, spans \in AnySlotAnnotations :
          InitTrain("QaNetMarginal", WithPassage(PlainHead("QaNetMarginal"), o),
                    [answer_as_passage_spans |-> spans])
    \/ \E o \in TwoTokenHeads, spans \in AnySlotAnnotations :
          \/ InitTrain("QaNetPlusQuestionSpan",
                       WithGate(WithPassage(PlainHead("QaNetPlusQuestionSpan"), o), <<0, 1>>),
                       [answer_as_passage_spans |-> spans,
                        answer_as_question_spans |-> <<<<-1, -1>>>>])
          \/ InitTrain("QaNetPlusQuestionSpan",
                       WithGate(WithQuestion(PlainHead("QaNetPlusQuestionSpan"), o), <<0, 1>>),
                       [answer_as_passage_spans |-> <<<<0, 0>>>>,
                        answer_as_question_spans |-> spans])
    \/ \E o \in TwoTokenHeads, spans \in AnySlotAnnotations :
          InitTrain("QaNetForDrop",
                    WithGate(WithPassage(PlainHead("QaNetForDrop"), o), <<1, 0, 0>>),
                    [answer_as_spans |-> spans,
                     answer_as_plus_minus_combinations |-> <<<<>>>>,
                     answer_as_counts |-> <<3>>])

SpecSlots == InitSlots /\ [][Next]_vars

(***************************************************************************)
(* SpecCalls: forward() called again and again on batches with metadata,   *)
(* get_metrics() called in between with either value of reset. An example  *)
(* of a batch is one of two examples of the class, either with a reference *)
(* answer, or one without 'answer_texts' and the other with an empty list. *)
(***************************************************************************)
Without(dict, key) == [k \in DOMAIN dict \ {key} |-> dict[k]]

CallMetadata(v, e, references) ==
    IF references = "missing"
    THEN Without(MetadataOf(BatchExamples(v)[e].head, BatchExamples(v)[e].question_id,
                            <<>>),
                 "answer_texts")
    ELSE MetadataOf(BatchExamples(v)[e].head, BatchExamples(v)[e].question_id,
                    IF references = "empty" THEN <<>> ELSE <<<<"a">>>>)

CallExamples == {<<1, "missing">>, <<3, "empty">>, <<1, "given">>, <<3, "given">>}

CallBatches == UNION {[1 .. n -> CallExamples] : n \in 1 .. MaxBatch}

\* The trainer calls forward() on the next batch.
NextBatch ==
    /\ pc \in {"done", "reported", "reset"}
    /\ Len(metrics) < MaxPairs
    /\ \E batch \in CallBatches :
          /\ heads' = [b \in 1 .. Len(batch) |-> BatchExamples(variant)[batch[b][1]].head]
          /\ metadata' = [b \in 1 .. Len(batch) |->
                             CallMetadata(variant, batch[b][1], batch[b][2])]
    /\ pc' = "call"
    /\ local' = <<>>
    /\ output_dict' = <<>>
    /\ UNCHANGED <<variant, answers, metrics>>

\* get_metrics(reset): the scores come from the metric's get_metric(reset),
\* which empties the accumulator when reset is True.
get_metrics(reset) ==
    /\ pc \in {"done", "reported", "reset"}
    /\ metrics' = IF reset THEN <<>> ELSE metrics
    /\ pc' = IF reset THEN "reset" ELSE "reported"
    /\ UNCHANGED <<variant, heads, answers, metadata, local, output_dict>>

InitCalls ==
    \E v \in Variants, batch \in CallBatches :
        InitBatch(v,
                  [b \in 1 .. Len(batch) |-> BatchExamples(v)[batch[b][1]].head],
                  None,
                  [b \in 1 .. Len(batch) |-> CallMetadata(v, batch[b][1], batch[b][2])])

NextCalls ==
    \/ ForwardMarginal
    \/ ForwardPlusQuestionSpan
    \/ ForwardForDrop
    \/ NextBatch
    \/ \E reset \in BOOLEAN : get_metrics(reset)

SpecCalls == InitCalls /\ [][NextCalls]_vars

(***************************************************************************)
(* Properties.                                                             *)
(***************************************************************************)
Done == pc = "done"

\* The searches forward() has run on example b: the logits as handed to the
\* search (masked positions at the sentinel), the mask, and the span returned.
Search(start_logits, end_logits, mask, span) ==
    [start |-> replace_masked_values(start_logits, mask, MaskFill),
     end |-> replace_masked_values(end_logits, mask, MaskFill),
     mask |-> mask, span |-> span]

Searches(b) ==
    IF variant = "QaNetForDrop"
    THEN {Search(heads[b].span_start_logits, heads[b].span_end_logits,
                 heads[b].passage_mask, local[b].best_span)}
    ELSE {Search(heads[b].span_start_logits, heads[b].span_end_logits,
                 heads[b].passage_mask, local[b].best_passage_span)}
         \cup (IF variant = "QaNetPlusQuestionSpan"
               THEN {Search(heads[b].question_span_start_logits,
                            heads[b].question_span_end_logits,
                            heads[b].question_mask, local[b].best_question_span)}
               ELSE {})

\* The pairs a <= b over the positions of a search, and the score of a pair.
Pairs(x) == {p \in Positions(x.start) \X Positions(x.start) : p[1] <= p[2]}

Score(x, p) == At(x.start, p[1]) + At(x.end, p[2])

Maximizers(x) == {p \in Pairs(x) : \A q \in Pairs(x) : Score(x, q) <= Score(x, p)}

LexLeq(p, q) == p[1] < q[1] \/ (p[1] = q[1] /\ p[2] <= q[2])

\* C1: after forward(), every best span (passage span, and question span where
\* there is one) has start <= end and both indices at unmasked positions, for
\* every mask with at least one unmasked position.
C1_BestSpanValid ==
    Done => \A b \in Batch : \A x \in Searches(b) :
                /\ x.span[1] <= x.span[2]
                /\ x.span[1] \in Positions(x.mask) /\ x.span[2] \in Positions(x.mask)
                /\ At(x.mask, x.span[1]) = 1 /\ At(x.mask, x.span[2]) = 1

\* A call has returned for an example whose padding carries, at one masked
\* position, start and end logits above those of every real token.
C1_Witness ==
    /\ Done
    /\ \E i \in Positions(heads[1].passage_mask) :
          /\ At(heads[1].passage_mask, i) = 0
          /\ \A j \in Positions(heads[1].passage_mask) :
                At(heads[1].passage_mask, j) = 1
                => /\ At(heads[1].span_start_logits, i) > At(heads[1].span_start_logits, j)
                   /\ At(heads[1].span_end_logits, i) > At(heads[1].span_end_logits, j)

\* C2: the span (i, j) the scan returns has i <= j and its score
\* start_logits[i] + end_logits[j] is the maximum of start_logits[a] +
\* end_logits[b] over all pairs a <= b, the brute-force reference.
C2_ScanAgreesWithBruteForce ==
    Done => \A b \in Batch : \A x \in Searches(b) :
                /\ <<x.span[1], x.span[2]>> \in Pairs(x)
                /\ \A q \in Pairs(x) : Score(x, q) <= Score(x, x.span)

\* A call has returned for an example whose largest start logit lies after its
\* largest end logit, so that the two unconstrained maxima form no valid span.
C2_Witness ==
    /\ Done
    /\ Len(heads[1].passage_mask) >= 2
    /\ Sum(heads[1].passage_mask) = Len(heads[1].passage_mask)
    /\ argmax(heads[1].span_start_logits) > argmax(heads[1].span_end_logits)
    /\ \A j \in Positions(heads[1].span_end_logits) :
          j # argmax(heads[1].span_end_logits)
          => At(heads[1].span_end_logits, j)
                < At(heads[1].span_end_logits, argmax(heads[1].span_end_logits))

\* C3: on start_logits = [0.1, 0.5, 0.2, 0.9, 0.1] and end_logits =
\* [0.05, 0.2, 0.6, 0.1, 0.9] without masking (logits in units of 0.05), the
\* search returns the span (3, 4), whose score is 1.8 (36 units), and the pair
\* (1, 2) scores 1.1 (22 units).
C3_ExampleSpan ==
    (Done /\ heads[1].span_start_logits = ExampleSpanHead.start
          /\ heads[1].span_end_logits = ExampleSpanHead.end
          /\ heads[1].passage_mask = ExampleSpanHead.mask)
    => /\ local[1].best_passage_span = <<3, 4>>
       /\ At(heads[1].span_start_logits, 3) + At(heads[1].span_end_logits, 4) = 36
       /\ At(heads[1].span_start_logits, 1) + At(heads[1].span_end_logits, 2) = 22

\* The call on the example has returned, with the span (3, 4).
C3_Witness ==
    /\ Done
    /\ heads[1].span_start_logits = ExampleSpanHead.start
    /\ heads[1].span_end_logits = ExampleSpanHead.end
    /\ local[1].best_passage_span = <<3, 4>>

\* C4: when several pairs with start <= end attain the maximum score, the
\* search returns the lexicographically smallest of them: the earliest start
\* and, among those, the earliest end.
C4_TiesLexicographicallySmallest ==
    Done => \A b \in Batch : \A x \in Searches(b) :
                /\ <<x.span[1], x.span[2]>> \in Maximizers(x)
                /\ \A q \in Maximizers(x) : LexLeq(x.span, q)

\* A call has returned for an example with a maximizing pair of a later start
\* than the span returned, and one of the same start and a later end.
C4_Witness ==
    /\ Done
    /\ \E x \in Searches(1) :
          /\ \E q \in Maximizers(x) : q[1] > x.span[1]
          /\ \E q \in Maximizers(x) : q[1] = x.span[1] /\ q[2] > x.span[2]

\* The probability a log-domain value stands for: exp(k * (-1e10) + ln(p)),
\* which is 0 in floating point as soon as k > 0.
Likelihood(x) == IF x.k > 0 THEN RZero ELSE x.p

RECURSIVE MaxOf(_)
MaxOf(t) ==
    IF Len(t) = 1 THEN t[1]
    ELSE IF RLeq(MaxOf(Tail(t)), Head(t)) THEN Head(t) ELSE MaxOf(Tail(t))

ArgMaxes(w) == {i \in Positions(w) : \A j \in Positions(w) : RLeq(At(w, j), At(w, i))}

Probabilities(log_probs) == [i \in 1 .. Len(log_probs) |-> Likelihood(log_probs[i])]

\* The probability of a span under a start and an end distribution.
SpanProbability(start_probs, end_probs, span) ==
    RMul(At(start_probs, span[1]), At(end_probs, span[2]))

\* Per answer type of example b, the probability of its best derivation: the
\* best span under the start and end distributions, the most probable sign of
\* every real number, the most probable count.
BestDerivationProbabilities(b) ==
    IF variant = "QaNetForDrop"
    THEN <<SpanProbability(local[b].span_start_probs, local[b].span_end_probs,
                           local[b].best_span),
           RProd([s \in 1 .. Len(heads[b].numbers_mask) |->
                     IF heads[b].numbers_mask[s] = 1
                     THEN MaxOf(local[b].number_sign_probs[s]) ELSE ROne]),
           MaxOf(local[b].count_number_probs)>>
    ELSE <<SpanProbability(Probabilities(local[b].passage_span_start_log_probs),
                           Probabilities(local[b].passage_span_end_log_probs),
                           local[b].best_passage_span),
           SpanProbability(Probabilities(local[b].question_span_start_log_probs),
                           Probabilities(local[b].question_span_end_logits_log_probs),
                           local[b].best_question_span)>>

GateProbabilities(b) ==
    IF variant = "QaNetForDrop" THEN local[b].answer_type_probs
    ELSE Probabilities(local[b].answer_type_log_probs)

GateWeighted(b) ==
    [t \in 1 .. Len(GateProbabilities(b)) |->
        RMul(BestDerivationProbabilities(b)[t], GateProbabilities(b)[t])]

Gated == variant \in {"QaNetForDrop", "QaNetPlusQuestionSpan"}

\* C5: in QaNetForDrop and QaNetPlusQuestionSpan the answer type used to decode
\* an example is an argmax, over the answer types, of the probability of the
\* type's best derivation weighted by the gate's probability of the type.
C5_AnswerTypeIsWeightedArgmax ==
    (Done /\ Gated) => \A b \in Batch : local[b].best_answer_type \in ArgMaxes(GateWeighted(b))

\* C6: the answer type selected from weighted scores is the first index of
\* their maximum, hence a function of the scores alone (two runs on the same
\* scores select the same type): [0.7, 0.2, 0.1] selects type 0 and the tied
\* scores [0.5, 0.5, 0.0] select type 0.
C6_FirstIndexWins ==
    Done => \A b \in 1 .. Len(local) :
                /\ local[b].best_answer_type \in ArgMaxes(local[b].weighted)
                /\ \A t \in ArgMaxes(local[b].weighted) : local[b].best_answer_type <= t
                /\ local[b].weighted = <<Rat(7, 10), Rat(2, 10), Rat(1, 10)>>
                   => local[b].best_answer_type = 0
                /\ local[b].weighted = <<Rat(5, 10), Rat(5, 10), Rat(0, 10)>>
                   => local[b].best_answer_type = 0

\* The selection has run on the tied scores [0.5, 0.5, 0.0].
C6_Witness ==
    /\ Done
    /\ local[1].weighted = <<Rat(5, 10), Rat(5, 10), Rat(0, 10)>>
    /\ local[1].best_answer_type = 0

\* C7: the score of the best span of a span type is the start distribution's
\* probability at the span's start times the end distribution's probability at
\* the span's end (in log form their sum), for passage and question spans.
C7_BestSpanScore ==
    Done => \A b \in Batch :
        /\ variant = "QaNetForDrop"
           => local[b].best_span_prob
                 = SpanProbability(local[b].span_start_probs, local[b].span_end_probs,
                                   local[b].best_span)
        /\ variant = "QaNetPlusQuestionSpan"
           => /\ local[b].best_passage_span_log_prob
                    = LogAdd(At(local[b].passage_span_start_log_probs,
                                local[b].best_passage_span[1]),
                             At(local[b].passage_span_end_log_probs,
                                local[b].best_passage_span[2]))
              /\ local[b].best_question_span_log_prob
                    = LogAdd(At(local[b].question_span_start_log_probs,
                                local[b].best_question_span[1]),
                             At(local[b].question_span_end_logits_log_probs,
                                local[b].best_question_span[2]))

\* The answers and the question ids forward() has returned.
ReturnedAnswers ==
    IF "answer" \in DOMAIN output_dict THEN output_dict["answer"]
    ELSE IF "best_answer_str" \in DOMAIN output_dict THEN output_dict["best_answer_str"]
    ELSE <<>>

ReturnedQuestionIds ==
    IF "question_id" \in DOMAIN output_dict THEN output_dict["question_id"] ELSE <<>>

\* The answer string of example b, from its answer type and best derivations.
AnswerOf(b) ==
    IF variant = "QaNetForDrop" THEN decode_drop(local[b], metadata[b]).best_answer_str
    ELSE IF variant = "QaNetPlusQuestionSpan"
    THEN decode_plus_q_span(local[b], metadata[b]).best_answer_str
    ELSE decode_marginal(local[b], metadata[b]).best_answer_str

\* C8: when forward() is called with metadata on a batch of B examples, what it
\* returns holds exactly B answer strings and exactly B question ids, the k-th
\* of each belonging to the k-th example, in all three model classes.
C8_OneAnswerAndIdPerExample ==
    (Done /\ metadata # None)
    => /\ Len(ReturnedAnswers) = Len(heads)
       /\ Len(ReturnedQuestionIds) = Len(heads)
       /\ \A k \in Batch :
             /\ ReturnedQuestionIds[k] = metadata[k].question_id
             /\ ReturnedAnswers[k] = AnswerOf(k)

\* The slots of an annotation list that are not padding.
IsRealSpan(slot) == slot[1] # -1

IsRealCombination(row) == Sum(row) > 0

IsRealCount(label) == label # -1

\* An example has at least one annotated derivation that is not padding.
HasDerivation(a) ==
    \/ \E f \in DOMAIN a \ {"answer_as_plus_minus_combinations", "answer_as_counts"} :
          \E i \in 1 .. Len(a[f]) : IsRealSpan(a[f][i])
    \/ /\ "answer_as_counts" \in DOMAIN a
       /\ \E i \in 1 .. Len(a.answer_as_counts) : IsRealCount(a.answer_as_counts[i])
    \/ /\ "answer_as_plus_minus_combinations" \in DOMAIN a
       /\ \E i \in 1 .. Len(a.answer_as_plus_minus_combinations) :
             IsRealCombination(a.answer_as_plus_minus_combinations[i])

\* -ln is finite at a term unless the term is ln(0) with no 1e-10 added to it;
\* it is non-negative when the term is at most ln(1).
TermFinite(loss, b) == loss.guard \/ loss.terms[b].p # RZero

TermNonPositive(loss, b) == loss.terms[b].k > 0 \/ RLeq(loss.terms[b].p, ROne)

\* C9: for a batch of well-formed examples (the annotation slots of a type
\* hold distinct derivations at real positions, then padding) that each have
\* at least one derivation that is not padding, the loss forward() returns is
\* finite and non-negative: no per-example marginal likelihood exceeds 1.
C9_LossFiniteNonNegative ==
    (Done /\ answers # None /\ \A b \in Batch : HasDerivation(answers[b]))
    => /\ "loss" \in DOMAIN output_dict
       /\ \A b \in Batch : /\ TermFinite(output_dict["loss"], b)
                           /\ TermNonPositive(output_dict["loss"], b)

\* QaNetForDrop has returned the loss of an example whose span slots are the
\* span (0, 0) and one padding slot, with a marginal likelihood above 1/2.
C9_Witness ==
    /\ Done
    /\ variant = "QaNetForDrop"
    /\ answers # None
    /\ answers[1].answer_as_spans = <<<<0, 0>>, <<-1, -1>>>>
    /\ RLess(Rat(1, 2), output_dict["loss"].terms[1].p)

\* The likelihood of a type from its slots that are not padding alone.
RECURSIVE SumOver(_, _)
SumOver(S, f) ==
    IF S = {} THEN RZero
    ELSE LET i == CHOOSE i \in S : TRUE
         IN  RAdd(f[i], SumOver(S \ {i}, f))

SpanLikelihood(start_probs, end_probs, slots) ==
    SumOver({i \in 1 .. Len(slots) : IsRealSpan(slots[i])},
            [i \in 1 .. Len(slots) |-> SpanProbability(start_probs, end_probs, slots[i])])

CombinationLikelihood(sign_probs, numbers_mask, rows) ==
    SumOver({i \in 1 .. Len(rows) : IsRealCombination(rows[i])},
            [i \in 1 .. Len(rows) |->
                RProd([s \in 1 .. Len(numbers_mask) |->
                          IF numbers_mask[s] = 1 THEN At(sign_probs[s], rows[i][s])
                          ELSE ROne])])

CountLikelihood(count_probs, labels) ==
    SumOver({i \in 1 .. Len(labels) : IsRealCount(labels[i])},
            [i \in 1 .. Len(labels) |-> At(count_probs, labels[i])])

\* The marginal likelihood of example b from the slots that are not padding.
MarginalOfRealSlots(b) ==
    IF variant = "QaNetForDrop"
    THEN RAdd(RAdd(RMul(At(local[b].answer_type_probs, 0),
                        SpanLikelihood(local[b].span_start_probs, local[b].span_end_probs,
                                       answers[b].answer_as_spans)),
                   RMul(At(local[b].answer_type_probs, 1),
                        CombinationLikelihood(local[b].number_sign_probs,
                                              heads[b].numbers_mask,
                                              answers[b].answer_as_plus_minus_combinations))),
              RMul(At(local[b].answer_type_probs, 2),
                   CountLikelihood(local[b].count_number_probs,
                                   answers[b].answer_as_counts)))
    ELSE IF variant = "QaNetPlusQuestionSpan"
    THEN RAdd(RMul(Likelihood(At(local[b].answer_type_log_probs, 0)),
                   SpanLikelihood(Probabilities(local[b].passage_span_start_log_probs),
                                  Probabilities(local[b].passage_span_end_log_probs),
                                  answers[b].answer_as_passage_spans)),
              RMul(Likelihood(At(local[b].answer_type_log_probs, 1)),
                   SpanLikelihood(Probabilities(local[b].question_span_start_log_probs),
                                  Probabilities(local[b].question_span_end_logits_log_probs),
                                  answers[b].answer_as_question_spans)))
    ELSE SpanLikelihood(Probabilities(local[b].passage_span_start_log_probs),
                        Probabilities(local[b].passage_span_end_log_probs),
                        answers[b].answer_as_passage_spans)

\* C10: a slot holding padding (a span or a count of -1, an all-zero sign
\* combination) is left out of the likelihood: the marginal likelihood under
\* the loss equals the one computed from the other slots alone, whatever the
\* probabilities at the clamped index 0 and of the all-unused combination.
C10_PaddingExcluded ==
    (Done /\ answers # None)
    => /\ "loss" \in DOMAIN output_dict
       /\ \A b \in Batch :
             Likelihood(output_dict["loss"].terms[b]) = MarginalOfRealSlots(b)

\* QaNetPlusQuestionSpan has returned the loss of an example whose passage
\* slots are the span (0, 1) and one padding slot, and whose question slots
\* are all padding, the span (0, 0) having a positive probability.
C10_Witness ==
    /\ Done
    /\ variant = "QaNetPlusQuestionSpan"
    /\ answers # None
    /\ answers[1].answer_as_passage_spans = <<<<0, 1>>, <<-1, -1>>>>
    /\ answers[1].answer_as_question_spans = <<<<-1, -1>>, <<-1, -1>>>>
    /\ Likelihood(output_dict["loss"].terms[1]) # RZero

LogLeq(x, y) == ~LogLess(y, x)

\* Per annotation field of the model class, the derivations that may be
\* annotated for example b and the test that tells a slot is padding.
AnnotationFields(b) ==
    IF variant = "QaNetForDrop"
    THEN <<[field |-> "answer_as_spans",
            candidates |-> SpanCandidates(heads[b].passage_mask)],
           [field |-> "answer_as_plus_minus_combinations",
            candidates |-> CombinationCandidates(heads[b].numbers_mask)],
           [field |-> "answer_as_counts", candidates |-> <<0, 3>>]>>
    ELSE <<[field |-> "answer_as_passage_spans",
            candidates |-> SpanCandidates(heads[b].passage_mask)]>>
         \o (IF variant = "QaNetPlusQuestionSpan"
             THEN <<[field |-> "answer_as_question_spans",
                     candidates |-> SpanCandidates(heads[b].question_mask)]>>
             ELSE <<>>)

IsPadding(field, slot) ==
    IF field = "answer_as_counts" THEN ~IsRealCount(slot)
    ELSE IF field = "answer_as_plus_minus_combinations" THEN ~IsRealCombination(slot)
    ELSE ~IsRealSpan(slot)

\* The annotations of example b with one padded slot of one answer type
\* replaced by a derivation of that type that is not yet annotated.
ExtensionsOf(b, f) ==
    {[answers[b] EXCEPT ![f.field][x[1]] = f.candidates[x[2]]] :
        x \in {y \in (1 .. Len(answers[b][f.field])) \X (1 .. Len(f.candidates)) :
                  /\ IsPadding(f.field, answers[b][f.field][y[1]])
                  /\ \A j \in 1 .. Len(answers[b][f.field]) :
                        answers[b][f.field][j] # f.candidates[y[2]]}}

Extensions(b) ==
    UNION {ExtensionsOf(b, AnnotationFields(b)[k]) : k \in 1 .. Len(AnnotationFields(b))}

\* The marginal log-likelihood of every answer type of example b under the
\* annotations a, and the example's combined one, as forward() computes them.
TypeLogLikelihoods(b, a) ==
    IF variant = "QaNetForDrop"
    THEN <<LogOf(RSum(likelyhood_for_spans(local[b], a))),
           LogOf(RSum(likelyhood_for_combinations(local[b], heads[b], a))),
           LogOf(RSum(likelyhood_for_counts(local[b], a)))>>
    ELSE IF variant = "QaNetPlusQuestionSpan"
    THEN <<log_marginal_likelihood_for_passage_spans(local[b], a),
           log_marginal_likelihood_for_question_spans(local[b], a)>>
    ELSE <<marginal_log_marginal_likelihood(local[b], a)>>

ExampleLogLikelihood(b, a) ==
    IF variant = "QaNetForDrop"
    THEN LogOf(marginal_likelyhood(local[b], heads[b], a))
    ELSE IF variant = "QaNetPlusQuestionSpan" THEN marginal_log_likelihood(local[b], a)
    ELSE marginal_log_marginal_likelihood(local[b], a)

\* C11: for the model output of a call, replacing one padded slot of an answer
\* type by one more correct derivation never decreases the marginal
\* log-likelihood of any type, and never decreases the example's combined
\* log-likelihood below the one under the loss returned (the loss never grows).
C11_MoreDerivationsNeverHurt ==
    (Done /\ answers # None)
    => \A b \in Batch :
          LET before == TypeLogLikelihoods(b, answers[b])
          IN  \A a \in Extensions(b) :
                 LET after == TypeLogLikelihoods(b, a)
                 IN  /\ \A t \in 1 .. Len(before) : LogLeq(before[t], after[t])
                     /\ LogLeq(output_dict["loss"].terms[b], ExampleLogLikelihood(b, a))

\* QaNetForDrop has returned the loss of an example annotated with the count 0
\* and a padded count slot, the count 3 being less probable than the count 0.
C11_Witness ==
    /\ Done
    /\ variant = "QaNetForDrop"
    /\ answers # None
    /\ answers[1].answer_as_counts = <<0, -1>>
    /\ RLess(At(local[1].count_number_probs, 3), At(local[1].count_number_probs, 0))
    /\ \E a \in Extensions(1) :
          /\ a.answer_as_counts = <<0, 3>>
          /\ LogLess(output_dict["loss"].terms[1], ExampleLogLikelihood(1, a))

\* C12: in QaNetForDrop every number slot outside the numbers mask contributes
\* the factor 1 to the likelihood of a sign combination whatever sign the row
\* gives it, and when no number is valid the likelihood of every row that is
\* not padding is 1.
C12_MaskedNumbersContributeOne ==
    (Done /\ variant = "QaNetForDrop" /\ answers # None)
    => \A b \in Batch : \A i \in 1 .. Len(answers[b].answer_as_plus_minus_combinations) :
          /\ \A s \in 1 .. Len(heads[b].numbers_mask) :
                heads[b].numbers_mask[s] = 0
                => likelyhood_for_combination_numbers(
                       local[b].number_sign_probs, heads[b].numbers_mask,
                       answers[b].answer_as_plus_minus_combinations[i])[s] = ROne
          /\ (/\ Sum(heads[b].numbers_mask) = 0
              /\ IsRealCombination(answers[b].answer_as_plus_minus_combinations[i]))
             => likelyhood_for_combinations(local[b], heads[b], answers[b])[i] = ROne

\* QaNetForDrop has returned for an example with two number slots, both
\* masked, annotated with the rows (-, +) and (+, unused).
C12_Witness ==
    /\ Done
    /\ variant = "QaNetForDrop"
    /\ answers # None
    /\ heads[1].numbers_mask = <<0, 0>>
    /\ answers[1].answer_as_plus_minus_combinations = <<<<2, 1>>, <<1, 0>>>>
    /\ likelyhood_for_combinations(local[1], heads[1], answers[1]) = <<ROne, ROne>>
    /\ "loss" \in DOMAIN output_dict

\* Per configured answer type of example b, the sum of the probabilities of
\* the type's annotated derivations that are not padding.
TypeLikelihoods(b) ==
    IF variant = "QaNetForDrop"
    THEN <<SpanLikelihood(local[b].span_start_probs, local[b].span_end_probs,
                          answers[b].answer_as_spans),
           CombinationLikelihood(local[b].number_sign_probs, heads[b].numbers_mask,
                                 answers[b].answer_as_plus_minus_combinations),
           CountLikelihood(local[b].count_number_probs, answers[b].answer_as_counts)>>
    ELSE <<SpanLikelihood(Probabilities(local[b].passage_span_start_log_probs),
                          Probabilities(local[b].passage_span_end_log_probs),
                          answers[b].answer_as_passage_spans),
           SpanLikelihood(Probabilities(local[b].question_span_start_log_probs),
                          Probabilities(local[b].question_span_end_logits_log_probs),
                          answers[b].answer_as_question_spans)>>

\* The sum over the answer types of the gate probability times the type's sum.
GatedLikelihood(b) ==
    RSum([t \in 1 .. Len(TypeLikelihoods(b)) |->
             RMul(GateProbabilities(b)[t], TypeLikelihoods(b)[t])])

\* C13: in QaNetPlusQuestionSpan and QaNetForDrop the loss is the negative mean
\* over the examples of the batch of one term per example, and the term is the
\* logarithm of the sum, over the answer types, of the gate probability of the
\* type times the sum of the probabilities of the type's non-padded derivations.
C13_LossIsMeanOfGatedMarginals ==
    (Done /\ Gated /\ answers # None)
    => /\ "loss" \in DOMAIN output_dict
       /\ DOMAIN output_dict["loss"].terms = Batch
       /\ \A b \in Batch :
             /\ Likelihood(output_dict["loss"].terms[b]) = GatedLikelihood(b)
             /\ GatedLikelihood(b) # RZero
                => output_dict["loss"].terms[b] = LogOf(GatedLikelihood(b))

\* QaNetForDrop has returned the loss of a batch of two examples that differ,
\* each annotated with derivations of at least two answer types, the gate
\* giving the types of the first example different probabilities.
C13_Witness ==
    /\ Done
    /\ variant = "QaNetForDrop"
    /\ answers # None
    /\ Len(heads) = 2
    /\ heads[1] # heads[2]
    /\ \A b \in Batch :
          Cardinality({t \in 1 .. 3 : TypeLikelihoods(b)[t] # RZero}) >= 2
    /\ GateProbabilities(1)[1] # GateProbabilities(1)[2]
    /\ output_dict["loss"].terms[1] # output_dict["loss"].terms[2]

\* The labels the answer-type gate of the model class is configured with.
ConfiguredAnswerTypes == 0 .. (NumAnswerTypes(variant) - 1)

\* The examples whose answer type is not a configured label.
Offending == {b \in Batch : local[b].best_answer_type \notin ConfiguredAnswerTypes}

\* C14: when the decode loop meets an answer type outside the configured labels
\* ({0, 1} in QaNetPlusQuestionSpan, {0, 1, 2} in QaNetForDrop), forward() ends
\* in a ValueError that carries the value of the first such example; nothing
\* is returned, and no answer of that example or a later one reaches the
\* metric. Without such a value forward() returns.
C14_UnknownAnswerTypeRaises ==
    (pc \in {"done", "raised"} /\ Gated /\ metadata # None)
    => IF Offending = {}
       THEN pc = "done"
       ELSE /\ pc = "raised"
            /\ output_dict = [ValueError |-> local[Min(Offending)].best_answer_type]
            /\ output_dict.ValueError \notin ConfiguredAnswerTypes
            /\ Len(metrics) < Min(Offending)

\* The loop of QaNetPlusQuestionSpan has met the answer type 2, a label of
\* QaNetForDrop only, at the second example of a batch, after an example whose
\* answer went to the metric.
C14_Witness ==
    /\ pc = "raised"
    /\ variant = "QaNetPlusQuestionSpan"
    /\ Len(heads) = 2
    /\ local[1].best_answer_type = 1
    /\ local[2].best_answer_type = 2
    /\ output_dict = [ValueError |-> 2]
    /\ Len(metrics) = 1

\* C15: what forward() returns contains a loss exactly when answer annotations
\* were supplied: no loss when every annotation argument is None, a loss when
\* an annotation argument is given, in all three model classes.
C15_LossIffAnnotations ==
    Done => (("loss" \in DOMAIN output_dict) <=> (answers # None))

Fused == pc = "fused"

\* Every row of an attention matrix sums to total and is 0 where mask is 0.
RowsNormalised(attention, mask, total) ==
    \A i \in 1 .. Len(attention) :
        /\ RSum(attention[i]) = total
        /\ \A j \in 1 .. Len(mask) : mask[j] = 0 => attention[i][j] = RZero

HasValid(mask) == Sum(mask) > 0

\* The vectors that differ from the given ones at masked positions only.
MaskedVariants(vectors, mask) ==
    {t \in Tensors(0 .. 3, Len(vectors)) :
        \A j \in 1 .. Len(mask) : mask[j] = 1 => t[j] = vectors[j]}

\* C16: in representation fusion every row of the passage-to-question
\* attention, of the question-to-passage attention and of their product sums
\* to 1 over the valid positions (to 0 when there is none) and is 0 at every
\* masked position, and the weighted sums are the same whatever the vectors at
\* the masked positions are.
C16_AttentionRowsNormalised ==
    Fused
    => \A b \in Batch :
          /\ RowsNormalised(local[b].passage_question_attention, heads[b].question_mask,
                            IF HasValid(heads[b].question_mask) THEN ROne ELSE RZero)
          /\ RowsNormalised(local[b].question_passage_attention, heads[b].passage_mask,
                            IF HasValid(heads[b].passage_mask) THEN ROne ELSE RZero)
          /\ RowsNormalised(local[b].attention_over_attention, heads[b].passage_mask,
                            IF HasValid(heads[b].passage_mask)
                               /\ HasValid(heads[b].question_mask)
                            THEN ROne ELSE RZero)
          /\ \A q \in MaskedVariants(heads[b].encoded_question, heads[b].question_mask) :
                weighted_sum(q, local[b].passage_question_attention)
                = local[b].passage_question_vectors
          /\ \A p \in MaskedVariants(heads[b].encoded_passage, heads[b].passage_mask) :
                weighted_sum(p, local[b].attention_over_attention)
                = local[b].passage_passage_vectors

\* The fusion step has run on a passage and a question of two positions, one
\* of them padding in each, with similarities that differ along both.
C16_Witness ==
    /\ Fused
    /\ heads[1].passage_mask = <<1, 0>>
    /\ heads[1].question_mask = <<1, 0>>
    /\ heads[1].passage_question_similarity = <<<<0, 1>>, <<1, 0>>>>
    /\ heads[1].encoded_passage = <<1, 2>>
    /\ local[1].attention_over_attention = <<<<ROne, RZero>>, <<ROne, RZero>>>>
    /\ local[1].passage_passage_vectors = <<ROne, ROne>>

\* The sign of a predicted class: 0 unused, 1 plus, 2 minus.
SignOfClass(c) == IF c = 1 THEN 1 ELSE IF c = 2 THEN -1 ELSE 0

\* The sum over the original numbers of example b of the number times the sign
\* of the class predicted for its slot.
SignedSumOfNumbers(b) ==
    Sum([s \in 1 .. Len(metadata[b].original_numbers) |->
            SignOfClass(local[b].best_signs_for_numbers[s])
            * metadata[b].original_numbers[s]])

\* C17: in QaNetForDrop, when the combination type wins for an example, the
\* answer decoded for it (the string handed to the metric) is str() of the sum
\* over all its original numbers of sign * number, class 0 giving the sign 0,
\* class 1 the sign +1 and class 2 the sign -1.
C17_CombinationAnswerIsSignedSum ==
    (/\ Done /\ variant = "QaNetForDrop" /\ metadata # None /\ Len(heads) = 1
     /\ local[1].best_answer_type = 1 /\ metadata[1].answer_texts # <<>>)
    => /\ Len(metrics) = 1
       /\ Len(local[1].best_signs_for_numbers) >= Len(metadata[1].original_numbers)
       /\ metrics[1][1] = str(SignedSumOfNumbers(1))

\* The combination type has won for an example with the numbers 3 and 5, the
\* first predicted minus and the second plus, or the first unused and the
\* second minus: the answers "2" and "-5".
C17_Witness ==
    /\ Done
    /\ variant = "QaNetForDrop"
    /\ metadata # None
    /\ local[1].best_answer_type = 1
    /\ metadata[1].original_numbers = <<3, 5>>
    /\ \/ local[1].best_signs_for_numbers = <<2, 1>> /\ metrics = <<<<<<"2">>, <<<<"3">>>>>>>>
       \/ local[1].best_signs_for_numbers = <<0, 2>>
          /\ metrics = <<<<<<"-", "5">>, <<<<"3">>>>>>>>

\* The merged vectors of example b after k applications of the refinement.
Snapshot(b, k) ==
    [merged |-> heads[b].merged_passage_attention_vectors,
     masks |-> [i \in 1 .. k |-> heads[b].passage_mask]]

\* C18: the refinement is applied N times in sequence (3 times in QaNetMarginal
\* and QaNetPlusQuestionSpan, 4 times in QaNetForDrop), snapshot k being the
\* refinement of snapshot k - 1; span-start reads the snapshots 1 and 2,
\* span-end the snapshots 1 and 3, and the pooled passage vector, in the classes
\* that have one, the last snapshot N.
C18_HeadsReadFixedSnapshots ==
    pc = "refined"
    => \A b \in Batch :
          /\ NumModelingLayers(variant) \in {3, 4}
          /\ Len(local[b].modeled_passage_list) = NumModelingLayers(variant) + 1
          /\ \A k \in 0 .. NumModelingLayers(variant) :
                At(local[b].modeled_passage_list, k) = Snapshot(b, k)
          /\ local[b].passage_for_span_start = <<Snapshot(b, 1), Snapshot(b, 2)>>
          /\ local[b].passage_for_span_end = <<Snapshot(b, 1), Snapshot(b, 3)>>
          /\ variant # "QaNetMarginal"
             => local[b].passage_vector = <<Snapshot(b, NumModelingLayers(variant))>>

\* C19: a call to forward() changes nothing but what it returns: the state of
\* the model object, its metric accumulator included, and the metadata and the
\* annotations of the caller are after the call what they were before it.
C19_ForwardChangesOnlyItsOutput ==
    [][/\ metrics' = metrics
       /\ metadata' = metadata
       /\ answers' = answers
       /\ heads' = heads
       /\ variant' = variant]_vars

\* weights are a masked softmax of scores: none is negative, masked positions
\* have the weight 0, the weights sum to 1, and two valid positions have
\* weights in the ratio of the exponentials of their scores.
IsMaskedSoftmax(weights, scores, mask) ==
    /\ \A i \in 1 .. Len(mask) : RLeq(RZero, weights[i])
    /\ \A i \in 1 .. Len(mask) : mask[i] = 0 => weights[i] = RZero
    /\ RSum(weights) = ROne
    /\ \A i, j \in 1 .. Len(mask) :
          (mask[i] = 1 /\ mask[j] = 1 /\ scores[i] <= scores[j])
          => weights[j] = RMul(weights[i], Rat(Pow2(scores[j] - scores[i]), 1))

\* C20: in QaNetPlusQuestionSpan and QaNetForDrop the pooling weights of the
\* passage and of the question are a masked softmax of the linear scores: not
\* negative, 0 at every masked position, summing to 1 over the valid positions.
C20_PoolingWeightsAreMaskedSoftmax ==
    pc = "pooled"
    => \A b \in Batch :
          /\ IsMaskedSoftmax(local[b].passage_weights, heads[b].passage_weights,
                             heads[b].passage_mask)
          /\ IsMaskedSoftmax(local[b].question_weights, heads[b].question_weights,
                             heads[b].question_mask)

\* The class probabilities of number slot s of example b: the softmax of the
\* slot's sign logits, before the mask is applied.
SignProbabilities(b, s) == softmax(heads[b].number_sign_logits[s])

\* The product over the valid slots of example b of the probability of the
\* class chosen for the slot, a masked slot giving the factor 1.
ProductOverValidSlots(b) ==
    RProd([s \in 1 .. Len(heads[b].numbers_mask) |->
              IF heads[b].numbers_mask[s] = 1
              THEN At(SignProbabilities(b, s), local[b].best_signs_for_numbers[s])
              ELSE ROne])

\* The example h without its masked number slots.
WithoutMaskedSlots(h) ==
    WithNumbers(h, [mask |-> SubSeq(h.numbers_mask, 1, Sum(h.numbers_mask)),
                    logits |-> SubSeq(h.number_sign_logits, 1, Sum(h.numbers_mask))])

\* The best combination of the example h and its probability.
BestCombinationOf(h) == drop_best_probs(h, drop_best(h, drop_probs(h)))

\* C21: in QaNetForDrop decoding, the best combination gives each valid number
\* slot a sign class of maximal probability and each masked slot the class 0;
\* its probability is the product over the valid slots of the probability of
\* the chosen class, masked slots giving the factor 1; the same example
\* without its masked slots has the same best combination probability and the
\* same decoded sum.
C21_BestCombinationIgnoresMaskedSlots ==
    (Done /\ variant = "QaNetForDrop")
    => \A b \in Batch :
          LET mask == heads[b].numbers_mask
              signs == local[b].best_signs_for_numbers
              trimmed == BestCombinationOf(WithoutMaskedSlots(heads[b]))
          IN  /\ Len(signs) = Len(mask)
              /\ \A s \in 1 .. Len(mask) :
                    IF mask[s] = 1
                    THEN signs[s] \in ArgMaxes(SignProbabilities(b, s))
                    ELSE signs[s] = 0
              /\ local[b].best_combination_prob = ProductOverValidSlots(b)
              /\ local[b].best_combination_prob = trimmed.best_combination_prob
              /\ metadata # None
                 => signed_sum(signs, metadata[b].original_numbers)
                    = signed_sum(trimmed.best_signs_for_numbers,
                                 metadata[b].original_numbers)

\* One real number slot whose sign head prefers minus (probabilities 1/6, 1/6,
\* 4/6) followed by two masked slots whose heads prefer plus: the best
\* combination is minus, unused, unused, its probability 2/3, and with the
\* combination type winning the decoded answer is "-3".
C21_Witness ==
    /\ Done
    /\ variant = "QaNetForDrop"
    /\ heads[1].numbers_mask = <<1, 0, 0>>
    /\ heads[1].number_sign_logits = <<<<0, 0, 2>>, <<0, 2, 0>>, <<0, 2, 0>>>>
    /\ local[1].best_signs_for_numbers = <<2, 0, 0>>
    /\ local[1].best_combination_prob = Rat(2, 3)
    /\ local[1].best_answer_type = 1
    /\ metrics = <<<<<<"-", "3">>, <<<<"3">>>>>>>>

\* An index below 0 read as position 0.
Clamped(index) == IF index < 0 THEN 0 ELSE index

\* The likelihood of the span slots whose start is not -1, each scored at its
\* start and end with an index below 0 read as position 0.
ScoredSpanLikelihood(start_probs, end_probs, slots) ==
    SumOver({i \in 1 .. Len(slots) : slots[i][1] # -1},
            [i \in 1 .. Len(slots) |->
                RMul(At(start_probs, Clamped(slots[i][1])),
                     At(end_probs, Clamped(slots[i][2])))])

\* The marginal likelihood of example b with its span slots scored that way.
MarginalOfScoredSlots(b) ==
    IF variant = "QaNetForDrop"
    THEN RAdd(RAdd(RMul(At(local[b].answer_type_probs, 0),
                        ScoredSpanLikelihood(local[b].span_start_probs,
                                             local[b].span_end_probs,
                                             answers[b].answer_as_spans)),
                   RMul(At(local[b].answer_type_probs, 1),
                        CombinationLikelihood(local[b].number_sign_probs,
                                              heads[b].numbers_mask,
                                              answers[b].answer_as_plus_minus_combinations))),
              RMul(At(local[b].answer_type_probs, 2),
                   CountLikelihood(local[b].count_number_probs,
                                   answers[b].answer_as_counts)))
    ELSE IF variant = "QaNetPlusQuestionSpan"
    THEN RAdd(RMul(Likelihood(At(local[b].answer_type_log_probs, 0)),
                   ScoredSpanLikelihood(Probabilities(local[b].passage_span_start_log_probs),
                                        Probabilities(local[b].passage_span_end_log_probs),
                                        answers[b].answer_as_passage_spans)),
              RMul(Likelihood(At(local[b].answer_type_log_probs, 1)),
                   ScoredSpanLikelihood(Probabilities(local[b].question_span_start_log_probs),
                                        Probabilities(local[b].question_span_end_logits_log_probs),
                                        answers[b].answer_as_question_spans)))
    ELSE ScoredSpanLikelihood(Probabilities(local[b].passage_span_start_log_probs),
                              Probabilities(local[b].passage_span_end_log_probs),
                              answers[b].answer_as_passage_spans)

\* C22: a span slot is padding exactly when its start index is -1, whatever
\* its end index: the marginal likelihood under the loss is the sum over the
\* slots whose start is not -1, and such a slot with the end -1 is scored as
\* the span that ends at position 0.
C22_PaddingDecidedByStartAlone ==
    (Done /\ answers # None)
    => /\ "loss" \in DOMAIN output_dict
       /\ \A b \in Batch :
             Likelihood(output_dict["loss"].terms[b]) = MarginalOfScoredSlots(b)

\* QaNetMarginal has returned the loss of an example whose slots are (1, -1)
\* and (-1, 1), under a start distribution (1/3, 2/3) and an end distribution
\* (4/5, 1/5): the likelihood is 2/3 * 4/5, the score of the span (1, 0).
C22_Witness ==
    /\ Done
    /\ variant = "QaNetMarginal"
    /\ answers # None
    /\ answers[1].answer_as_passage_spans = <<<<1, -1>>, <<-1, 1>>>>
    /\ Probabilities(local[1].passage_span_start_log_probs) = <<Rat(1, 3), Rat(2, 3)>>
    /\ Probabilities(local[1].passage_span_end_log_probs) = <<Rat(4, 5), Rat(1, 5)>>
    /\ Likelihood(output_dict["loss"].terms[1]) = Rat(8, 15)

\* The tensor of example b that torch.argmax reduces to the answer type.
AnswerTypeScores(b) ==
    IF variant = "QaNetForDrop" THEN local[b].weighted
    ELSE local[b].answer_type_log_probs

\* C23: in every call of forward() of QaNetPlusQuestionSpan and QaNetForDrop
\* the answer type of each example is the argmax over as many scores as the
\* class has answer types (2 and 3), hence one of the configured labels, and
\* the call never ends in the error of an unrecognized answer type.
C23_AnswerTypeAlwaysConfigured ==
    (pc \in {"done", "raised"} /\ Gated)
    => /\ \A b \in Batch :
             /\ Len(AnswerTypeScores(b)) = NumAnswerTypes(variant)
             /\ local[b].best_answer_type \in ConfiguredAnswerTypes
       /\ "ValueError" \notin DOMAIN output_dict
       /\ metadata # None /\ answers = None => pc = "done"

\* QaNetForDrop has decoded an example with the last of its labels, the count
\* type, and QaNetPlusQuestionSpan one with the question span type.
C23_Witness ==
    /\ Done
    /\ metadata # None
    /\ \/ variant = "QaNetForDrop" /\ local[1].best_answer_type = 2
       \/ variant = "QaNetPlusQuestionSpan" /\ local[1].best_answer_type = 1

\* The pairs the metric is owed for the batch of the call that has returned:
\* per example with a non-empty 'answer_texts', in the order of the examples,
\* the answer decoded for it and its reference answers.
RECURSIVE OwedFrom(_)
OwedFrom(b) ==
    IF b > Len(metadata) THEN <<>>
    ELSE (IF "answer_texts" \in DOMAIN metadata[b] /\ metadata[b].answer_texts # <<>>
          THEN <<<<AnswerOf(b), metadata[b].answer_texts>>>>
          ELSE <<>>) \o OwedFrom(b + 1)

OwedPairs == OwedFrom(1)

\* C24: over any sequence of calls of forward() with metadata, each call hands
\* the metric exactly one (predicted answer, reference answers) pair per
\* example whose metadata has a non-empty answer_texts, in example order, and
\* none for an example whose answer_texts is missing or empty; a new batch
\* and get_metrics(reset=False) leave what the metric holds unchanged.
C24_OnePairPerReferencedExample ==
    [][/\ (pc = "call" /\ pc' # "call") => (pc' = "done" /\ metrics' = metrics \o OwedPairs')
       /\ pc' = "reported" => metrics' = metrics
       /\ pc' = "call" => metrics' = metrics]_vars

\* After a get_metrics(reset=False) the metric of QaNetPlusQuestionSpan holds
\* two pairs, the last call of forward() having been on a batch whose first
\* example has no 'answer_texts' and whose second has a reference answer: one
\* pair is of that call, the other of a call before it.
C24_Witness ==
    /\ pc = "reported"
    /\ variant = "QaNetPlusQuestionSpan"
    /\ Len(metrics) = 2
    /\ Len(metadata) = 2
    /\ "answer_texts" \notin DOMAIN metadata[1]
    /\ metadata[2].answer_texts = <<<<"a">>>>
    /\ metrics[Len(metrics)] = <<AnswerOf(2), <<<<"a">>>>>>

\* Every slot of an answer type is padding.
AllPadding(slots) == \A i \in 1 .. Len(slots) : ~IsRealSpan(slots[i])

\* The marginal log-likelihood of one answer type: the logarithm of the summed
\* probabilities of its spans that are not padding.
TypeMarginalLogLikelihood(start_log_probs, end_log_probs, slots) ==
    LogOf(SpanLikelihood(Probabilities(start_log_probs), Probabilities(end_log_probs),
                         slots))

\* C25: in QaNetPlusQuestionSpan, for an example whose slots of one answer
\* type are all padding while the other type has a valid span, the combined
\* marginal log-likelihood is the gate log-probability of the annotated type
\* plus that type's marginal log-likelihood; the padded type adds nothing.
C25_PaddedTypeAddsNothing ==
    (Done /\ variant = "QaNetPlusQuestionSpan" /\ answers # None)
    => \A b \in Batch :
          LET passage == answers[b].answer_as_passage_spans
              question == answers[b].answer_as_question_spans
              term == output_dict["loss"].terms[b]
          IN  /\ (AllPadding(question) /\ ~AllPadding(passage))
                 => term = LogAdd(At(local[b].answer_type_log_probs, 0),
                                  TypeMarginalLogLikelihood(
                                      local[b].passage_span_start_log_probs,
                                      local[b].passage_span_end_log_probs, passage))
              /\ (AllPadding(passage) /\ ~AllPadding(question))
                 => term = LogAdd(At(local[b].answer_type_log_probs, 1),
                                  TypeMarginalLogLikelihood(
                                      local[b].question_span_start_log_probs,
                                      local[b].question_span_end_logits_log_probs,
                                      question))

\* QaNetPlusQuestionSpan has returned the loss of an example whose two passage
\* slots are padding and whose question slots are the span (0, 0) and one
\* padding slot, under a gate that gives the question type 2/3 and question
\* heads that give the span (0, 0) the probability 1/5 * 4/5.
C25_Witness ==
    /\ Done
    /\ variant = "QaNetPlusQuestionSpan"
    /\ answers # None
    /\ answers[1].answer_as_passage_spans = <<<<-1, -1>>, <<-1, -1>>>>
    /\ answers[1].answer_as_question_spans = <<<<0, 0>>, <<-1, -1>>>>
    /\ heads[1].answer_type_logits = <<0, 1>>
    /\ heads[1].question_span_start_logits = <<0, 2>>
    /\ output_dict["loss"].terms[1] = LogOf(Rat(8, 75))

====
